---- MODULE Spec2Model ----
(***************************************************************************)
(* Structured action protocol and self-correcting execution engine of the  *)
(* Excel add-in: ExcelService.executeActions (collision guard, dispatch,   *)
(* post-write validation) and the task pane's execute -> validate ->       *)
(* correct loop.                                                           *)
(*                                                                         *)
(* Strings that the code inspects character by character are sequences of  *)
(* tokens: a column label is a sequence over 1..26 (A = 1), a formula is a *)
(* sequence whose first token may be "=".  An optional field of a          *)
(* TypeScript object is a sequence of length 0 (undefined) or 1.           *)
(***************************************************************************)
EXTENDS Integers, Sequences, FiniteSets, TLC

\* ------------------------------------------------------------------------
\* Bounds of the model
\* ------------------------------------------------------------------------
MaxBatch == 2
MaxTurns == 2
MaxFormulas == 2
MaxProse == 1
MaxRows == 10
MaxCols == 5
MaxCalc == 2
MaxData == 3
MaxCalls == 11
MaxInFlight == 1
MaxFailures == 2
MaxClears == 1

\* ------------------------------------------------------------------------
\* Program constants
\* ------------------------------------------------------------------------
FirstOffset == 2
LastOffset == 20

\* ------------------------------------------------------------------------
\* Optional values
\* ------------------------------------------------------------------------
None == <<>>
Some(x) == <<x>>
Has(o) == o # <<>>

Max(a, b) == IF a > b THEN a ELSE b

\* ------------------------------------------------------------------------
\* Addresses
\* ------------------------------------------------------------------------
RECURSIVE numberToColumn(_)
numberToColumn(num) ==
  IF num <= 0 THEN <<>>
  ELSE Append(numberToColumn((num - 1) \div 26), ((num - 1) % 26) + 1)

\* The host's reading of a column label (A = 1, Z = 26, AA = 27).
RECURSIVE HostColumnIndex(_)
HostColumnIndex(col) ==
  IF col = <<>> THEN 0
  ELSE HostColumnIndex(SubSeq(col, 1, Len(col) - 1)) * 26 + col[Len(col)]

CellAddr(col, row) == [col |-> col, row |-> row]
SingleCell(col, row) == [start |-> CellAddr(col, row), end |-> None]
CellRange(c1, r1, c2, r2) == [start |-> CellAddr(c1, r1), end |-> Some(CellAddr(c2, r2))]

\* action.range.split(":")[0]
StartAddress(range) == [start |-> range.start, end |-> None]

\* sheet.getRange(address): the rectangle an A1 address denotes.
HostGetRange(range) ==
  LET s == range.start
      e == IF Has(range.end) THEN range.end[1] ELSE range.start
  IN [r1 |-> s.row, c1 |-> HostColumnIndex(s.col),
      r2 |-> e.row, c2 |-> HostColumnIndex(e.col)]

\* range.getResizedRange(deltaRows, deltaColumns)
HostGetResizedRange(reg, dRows, dCols) ==
  [reg EXCEPT !.r2 = reg.r2 + dRows, !.c2 = reg.c2 + dCols]

RegionRows(reg) == reg.r2 - reg.r1 + 1
RegionCols(reg) == reg.c2 - reg.c1 + 1
RegionCells(reg) == {<<r, c>> : r \in reg.r1..reg.r2, c \in reg.c1..reg.c2}

\* ------------------------------------------------------------------------
\* The active worksheet: a function from the occupied cells <<row, col>> to
\* their (non-empty) values.  An absent cell reads as "".
\* ------------------------------------------------------------------------
CellValue(s, rc) == IF rc \in DOMAIN s THEN s[rc] ELSE ""

\* range.values after load + sync
HostValues(s, reg) ==
  [i \in 1..RegionRows(reg) |->
     [j \in 1..RegionCols(reg) |-> CellValue(s, <<reg.r1 + i - 1, reg.c1 + j - 1>>)]]

\* cell !== null && cell !== undefined && cell !== ""
IsNonEmpty(cell) == cell # ""

CountNonEmpty(matrix) ==
  Cardinality({<<i, j>> \in (DOMAIN matrix) \X (1..(IF matrix = <<>> THEN 0 ELSE Len(matrix[1]))) :
                  j \in DOMAIN matrix[i] /\ IsNonEmpty(matrix[i][j])})

CountCells(matrix) ==
  Cardinality({<<i, j>> \in (DOMAIN matrix) \X (1..(IF matrix = <<>> THEN 0 ELSE Len(matrix[1]))) :
                  j \in DOMAIN matrix[i]})

SetMin(S) == CHOOSE x \in S : \A y \in S : x <= y
SetMax(S) == CHOOSE x \in S : \A y \in S : x >= y

\* sheet.getUsedRangeOrNullObject(): the bounding box of the occupied cells.
HostUsedRange(s) ==
  IF DOMAIN s = {} THEN [isNullObject |-> TRUE, rowCount |-> 0, columnCount |-> 0]
  ELSE LET rows == {rc[1] : rc \in DOMAIN s}
           cols == {rc[2] : rc \in DOMAIN s}
       IN [isNullObject |-> FALSE,
           rowCount |-> SetMax(rows) - SetMin(rows) + 1,
           columnCount |-> SetMax(cols) - SetMin(cols) + 1]

\* The host accepts a 2D array only for a range of the same dimensions
\* (otherwise: "la matriz de entrada no coincide con el tamaño").
HostDimensionsMatch(reg, matrix) ==
  /\ RegionRows(reg) >= 1 /\ RegionCols(reg) >= 1
  /\ Len(matrix) = RegionRows(reg)
  /\ \A i \in DOMAIN matrix : Len(matrix[i]) = RegionCols(reg)

\* range.values = matrix; context.sync()
HostWrite(s, reg, matrix) ==
  LET inside == RegionCells(reg)
      val(rc) == matrix[rc[1] - reg.r1 + 1][rc[2] - reg.c1 + 1]
      dom == ((DOMAIN s) \ inside) \cup {rc \in inside : val(rc) # ""}
  IN [rc \in dom |-> IF rc \in inside THEN val(rc) ELSE s[rc]]

\* ------------------------------------------------------------------------
\* Formulas
\* ------------------------------------------------------------------------
StartsWithEq(f) == Len(f) > 0 /\ f[1] = "="

\* Variant: the marker is put in front of every non-empty string.
NormalizeFormulaAlways(f) == IF f # <<>> THEN <<"=">> \o f ELSE f

\* f && !f.startsWith("=") ? `=${f}` : f
NormalizeFormula(f) == IF f # <<>> /\ ~StartsWithEq(f) THEN <<"=">> \o f ELSE f

\* The value the host shows for a cell that was assigned formula text f.
HostEvaluate(f) ==
  IF f = <<>> THEN ""
  ELSE IF ~StartsWithEq(f) THEN f[1]
  ELSE IF Len(f) < 2 THEN "="
  ELSE IF f[2] = "BAD" THEN "#REF!"
  ELSE IF f[2] = "SPILL" THEN "#SPILL!"
  ELSE IF f[2] = "ZERO" THEN "0"
  ELSE "7"

\* action.formulas.map(row => row.map(f => ...))
NormalizeFormulas(matrix) ==
  [i \in DOMAIN matrix |-> [j \in DOMAIN matrix[i] |-> NormalizeFormula(matrix[i][j])]]

\* The values the host shows for a range that was assigned the formulas.
HostEvaluateAll(matrix) ==
  [i \in DOMAIN matrix |-> [j \in DOMAIN matrix[i] |-> HostEvaluate(matrix[i][j])]]

\* ------------------------------------------------------------------------
\* ExcelAction and ActionResult
\* ------------------------------------------------------------------------
ExcelAction(type, range, value, values, formula, formulas, allowOverwrite) ==
  [type |-> type, range |-> range, value |-> value, values |-> values,
   formula |-> formula, formulas |-> formulas, allowOverwrite |-> allowOverwrite]

IsWriteKind(action) == action.type = "write" \/ action.type = "formula"

\* arr?.length of an optional array (undefined counts as 0: both are falsy)
ArrLen(o) == IF Has(o) THEN Len(o[1]) ELSE 0
\* arr?.[0]?.length
FirstRowLen(o) == IF Has(o) /\ Len(o[1]) > 0 THEN Len(o[1][1]) ELSE 0

\* Variant: the guard probes one row whatever the payload is.
GuardRowsOfAddress(action) == 1

\* const numRows = action.values?.length || action.formulas?.length || 1
GuardRows(action) ==
  IF ArrLen(action.values) # 0 THEN ArrLen(action.values)
  ELSE IF ArrLen(action.formulas) # 0 THEN ArrLen(action.formulas)
  ELSE 1

\* const numCols = action.values?.[0]?.length || action.formulas?.[0]?.length || 1
GuardCols(action) ==
  IF FirstRowLen(action.values) # 0 THEN FirstRowLen(action.values)
  ELSE IF FirstRowLen(action.formulas) # 0 THEN FirstRowLen(action.formulas)
  ELSE 1

\* The region a write or formula action asks for: its start cell expanded to
\* the rows x columns of its payload.
RequestedRegion(action) ==
  HostGetResizedRange(HostGetRange(StartAddress(action.range)),
                      GuardRows(action) - 1, GuardCols(action) - 1)

GuardErrorText == "El rango contiene datos existentes. Seleccione un rango vacio o use allowOverwrite para forzar la escritura."
SizeMismatchText == "La matriz de entrada no coincide con el tamano o las dimensiones del rango"
HostErrorText == "Excel rechazo la operacion"

\* The three shapes of ActionResult that executeSingleAction returns.
GuardFailureResult(action) ==
  [success |-> FALSE, action |-> action, error |-> Some(GuardErrorText),
   validated |-> None, validationPassed |-> None]

ValidatedResult(action, passed) ==
  [success |-> TRUE, action |-> action, error |-> None,
   validated |-> Some(TRUE), validationPassed |-> Some(passed)]

PlainResult(action) ==
  [success |-> TRUE, action |-> action, error |-> None,
   validated |-> Some(FALSE), validationPassed |-> None]

CaughtResult(action, errorMsg) ==
  [success |-> FALSE, action |-> action, error |-> Some(errorMsg),
   validated |-> Some(FALSE), validationPassed |-> None]

\* ------------------------------------------------------------------------
\* Collision guard
\* ------------------------------------------------------------------------
\* Variant: the guard ignores allowOverwrite.
NeedsGuardIgnoringFlag(action) == IsWriteKind(action)

\* if ((action.type === "write" || action.type === "formula") && !action.allowOverwrite)
NeedsGuard(action) == IsWriteKind(action) /\ ~action.allowOverwrite

\* checkRangeForData: the body of the Excel.run batch
checkRangeForData(s, address, numRows, numCols) ==
  LET startCell == HostGetRange(StartAddress(address))
      targetRange == HostGetResizedRange(startCell, numRows - 1, numCols - 1)
      nonEmptyCells == CountNonEmpty(HostValues(s, targetRange))
  IN [hasData |-> nonEmptyCells > 0,
      nonEmptyCells |-> nonEmptyCells,
      totalCells |-> numRows * numCols]

\* checkRangeForData: what its catch block returns when the probe read fails
checkRangeForDataCatch == [hasData |-> FALSE, nonEmptyCells |-> 0, totalCells |-> 0]

\* The candidate range probed at a column offset past the used column count.
CandidateRange(used, offset, numRows, numCols) ==
  LET startCol == used.columnCount + offset
  IN CellRange(numberToColumn(startCol), 1,
               numberToColumn(startCol + numCols - 1), Max(numRows, used.rowCount))

CandidateIsEmpty(s, used, offset, numRows, numCols) ==
  CountNonEmpty(HostValues(s, HostGetRange(CandidateRange(used, offset, numRows, numCols)))) = 0

CandidateStart(used, offset) ==
  SingleCell(numberToColumn(used.columnCount + offset), 1)

\* Variant: the first candidate is returned without looking at its cells.
SearchEmptyRangeUnverified(s, used, numRows, numCols, offset) ==
  Some(CandidateStart(used, offset))

\* The offsets are tried in increasing order; the first empty candidate wins.
RECURSIVE SearchEmptyRange(_, _, _, _, _)
SearchEmptyRange(s, used, numRows, numCols, offset) ==
  IF offset > LastOffset THEN None
  ELSE IF CandidateIsEmpty(s, used, offset, numRows, numCols)
       THEN Some(CandidateStart(used, offset))
       ELSE SearchEmptyRange(s, used, numRows, numCols, offset + 1)

\* findEmptyRangeForData: the body of the Excel.run batch
findEmptyRangeForData(s, numRows, numCols) ==
  LET used == HostUsedRange(s)
  IN IF used.isNullObject THEN Some(SingleCell(<<1>>, 1))
     ELSE SearchEmptyRange(s, used, numRows, numCols, FirstOffset)

\* Number of candidate ranges findEmptyRangeForData reads.
RECURSIVE ProbedCandidates(_, _, _, _, _)
ProbedCandidates(s, used, numRows, numCols, offset) ==
  IF offset > LastOffset THEN 0
  ELSE IF CandidateIsEmpty(s, used, offset, numRows, numCols) THEN 1
       ELSE 1 + ProbedCandidates(s, used, numRows, numCols, offset + 1)

\* ------------------------------------------------------------------------
\* Dispatch: the mutation of one action inside its Excel.run batch
\* ------------------------------------------------------------------------
Wrote(s, reg) == [threw |-> FALSE, error |-> "", sheet |-> s, written |-> Some(reg)]
NoWrite(s) == [threw |-> FALSE, error |-> "", sheet |-> s, written |-> None]
Threw(s, msg) == [threw |-> TRUE, error |-> msg, sheet |-> s, written |-> None]

AssignValues(s, reg, matrix) ==
  IF HostDimensionsMatch(reg, matrix) THEN Wrote(HostWrite(s, reg, matrix), reg)
  ELSE Threw(s, SizeMismatchText)

\* case "write"
WriteBranch(action, finalRange, s) ==
  IF ArrLen(action.values) > 0
  THEN LET startCell == HostGetRange(StartAddress(finalRange))
           numRows == ArrLen(action.values)
           numCols == IF FirstRowLen(action.values) # 0 THEN FirstRowLen(action.values) ELSE 1
           targetRange == HostGetResizedRange(startCell, numRows - 1, numCols - 1)
       IN AssignValues(s, targetRange, action.values[1])
  ELSE IF Has(action.value)
       THEN AssignValues(s, HostGetRange(finalRange), <<<<action.value[1]>>>>)
       ELSE NoWrite(s)

\* const formula = action.formula.startsWith("=") ? action.formula : `=${action.formula}`
PrefixFormula(f) == IF StartsWithEq(f) THEN f ELSE <<"=">> \o f

\* case "formula": what is assigned to range.formulas (None: nothing is).
AssignedFormulas(action) ==
  IF Has(action.formulas) THEN Some(NormalizeFormulas(action.formulas[1]))
  ELSE IF Has(action.formula) /\ action.formula[1] # <<>>
       THEN Some(<<<<PrefixFormula(action.formula[1])>>>>)
       ELSE None

\* case "formula"
FormulaBranch(action, finalRange, s) ==
  IF Has(AssignedFormulas(action))
  THEN AssignValues(s, HostGetRange(finalRange), HostEvaluateAll(AssignedFormulas(action)[1]))
  ELSE NoWrite(s)

\* Variant: only write actions are validated.
NeedsValidationWriteOnly(action) == action.type = "write"

\* if (action.type === "write" || action.type === "formula") after the batch
NeedsValidation(action) == action.type = "write" \/ action.type = "formula"

\* The case labels of switch (action.type).
HandledKinds ==
  {"write", "formula", "format", "merge", "columnWidth", "rowHeight", "autofit", "table",
   "chart", "createSheet", "activateSheet", "deleteSheet", "pivotTable", "read", "calc",
   "filter", "clearFilter", "search", "sort", "conditionalFormat", "dataValidation",
   "comment", "hyperlink", "namedRange", "protect", "unprotect", "freezePanes",
   "unfreezePane", "groupRows", "groupColumns", "ungroupRows", "ungroupColumns",
   "hideRows", "hideColumns", "showRows", "showColumns", "removeDuplicates",
   "textToColumns"}

UnknownActionText == "Accion desconocida"
HandledText == "hecho"

\* let message: what the branch taken leaves in it, followed by the kind.
\* default: message = `Accion desconocida: ${action.type}`
DispatchMessage(action) ==
  IF action.type \in HandledKinds THEN <<HandledText, action.type>>
  ELSE <<UnknownActionText, action.type>>

\* switch (action.type): the kinds that do not change cell contents (format,
\* merge, ...) and the default branch leave the cells as they are.
Dispatch(action, finalRange, s) ==
  IF action.type = "write" THEN WriteBranch(action, finalRange, s)
  ELSE IF action.type = "formula" THEN FormulaBranch(action, finalRange, s)
  ELSE NoWrite(s)

\* ------------------------------------------------------------------------
\* Post-write validation
\* ------------------------------------------------------------------------
RecognisedErrors == {"#REF!", "#VALUE!", "#NAME?", "#DIV/0!", "#ERROR!"}

\* The region validateWriteAction reads back (None: nothing is read).
VerifyRegion(action, finalRange) ==
  IF action.type = "write" /\ Has(action.values)
  THEN LET numRows == ArrLen(action.values)
           numCols == IF FirstRowLen(action.values) # 0 THEN FirstRowLen(action.values) ELSE 1
       IN Some(HostGetResizedRange(HostGetRange(StartAddress(finalRange)), numRows - 1, numCols - 1))
  ELSE IF action.type = "formula" THEN Some(HostGetRange(finalRange))
  ELSE None

\* Variant: every action is taken to expect data.
ExpectedDataAlways(action) == TRUE

\* const expectedData = action.type === "write" ? (values && values.length > 0)
\*   : (formula || (formulas && formulas.length > 0))
ExpectedData(action) ==
  IF action.type = "write" THEN ArrLen(action.values) > 0
  ELSE (Has(action.formula) /\ action.formula[1] # <<>>) \/ ArrLen(action.formulas) > 0

\* Variant: the thresholds are inclusive.
IncompleteTableInclusive(emptyCount, totalCells) ==
  10 * emptyCount >= 3 * totalCells /\ emptyCount >= 3

\* emptyRatio > 0.3 && emptyCount > 3, with emptyRatio = emptyCount / totalCells
IncompleteTable(emptyCount, totalCells) ==
  10 * emptyCount > 3 * totalCells /\ emptyCount > 3

\* validateWriteAction, after the read: "passed" and the rule that decided.
ClassifyValues(action, actualValues) ==
  LET totalCells == CountCells(actualValues)
      emptyCount == totalCells - CountNonEmpty(actualValues)
      hasData == CountNonEmpty(actualValues) > 0
      errorCount == Cardinality({<<i, j>> \in (DOMAIN actualValues) \X (1..(IF actualValues = <<>> THEN 0 ELSE Len(actualValues[1]))) :
                                    j \in DOMAIN actualValues[i] /\ actualValues[i][j] \in RecognisedErrors})
  IN IF ExpectedData(action) /\ ~hasData
       THEN [passed |-> FALSE, rule |-> "noData"]
     ELSE IF action.type = "write" /\ ArrLen(action.values) > 1
             /\ IncompleteTable(emptyCount, totalCells)
       THEN [passed |-> FALSE, rule |-> "incomplete"]
     ELSE IF action.type = "formula" /\ errorCount > 0 /\ errorCount = totalCells
       THEN [passed |-> FALSE, rule |-> "allErrors"]
     ELSE [passed |-> TRUE, rule |-> "ok"]

\* let actualValues = []; ... actualValues = targetRange.values
ActualValues(action, finalRange, s) ==
  LET reg == VerifyRegion(action, finalRange)
  IN IF Has(reg) THEN HostValues(s, reg[1]) ELSE <<>>

validateWriteAction(action, finalRange, s) ==
  ClassifyValues(action, ActualValues(action, finalRange, s))

\* validateWriteAction: its catch block ("en caso de error, asumir que paso")
validateWriteActionCatch == [passed |-> TRUE, rule |-> "unreadable"]

\* ------------------------------------------------------------------------
\* State
\* ------------------------------------------------------------------------
VARIABLES
  sheet,     \* cells of the active worksheet
  actions,   \* the argument of executeActions
  idx,       \* position of the for loop of executeActions (1-based)
  pc,        \* await point executeSingleAction is suspended at
  results,   \* const results: ActionResult[]
  cur,       \* locals of the running executeSingleAction call
  last,      \* record of the call that returned last (history)
  started,   \* for every call begun: its index and the results present then
  isProcessing,       \* state.isProcessing
  pendingActions,     \* state.pendingActions
  editMode,           \* state.editMode
  lastActionResults,  \* state.lastActionResults
  chains,             \* the async call chains started by user events
  turns,              \* number of user events so far
  shownIn,            \* the edit mode in which the pending actions were shown (history)
  called,             \* the function a direct call last applied
  argument,           \* its argument
  returned,           \* what it returned
  calc,               \* the calc phase of sendMessage and the Excel.run batches it issued
  workbook,                  \* context.workbook.worksheets: the cells of every sheet
  activeSheet,               \* name of the active worksheet
  lightweightIndexCache,     \* this.lightweightIndexCache
  lightweightIndexCacheKey,  \* this.lightweightIndexCacheKey
  dataIndexCache,            \* this.dataIndexCache
  dataIndexCacheKey,         \* this.dataIndexCacheKey
  conversationHistory,       \* this.conversationHistory
  inFlight,                  \* the sendMessageStructured calls suspended at an await
  lastCall,                  \* the call that returned or threw last
  sent,                      \* number of requests sent so far
  failures,                  \* number of calls that threw so far
  clears                     \* number of clicks on the clear button so far

execVars == <<sheet, actions, idx, pc, results, cur, last, started>>
turnVars == <<isProcessing, pendingActions, editMode, lastActionResults, chains, turns,
              shownIn>>
fnVars == <<called, argument, returned>>
calcVars == <<calc>>
bookVars == <<workbook, activeSheet, lightweightIndexCache, lightweightIndexCacheKey,
              dataIndexCache, dataIndexCacheKey>>
chatVars == <<conversationHistory, inFlight, lastCall, sent, failures, clears>>
vars == <<sheet, actions, idx, pc, results, cur, last, started,
          isProcessing, pendingActions, editMode, lastActionResults, chains, turns, shownIn,
          called, argument, returned, calc,
          workbook, activeSheet, lightweightIndexCache, lightweightIndexCacheKey,
          dataIndexCache, dataIndexCacheKey,
          conversationHistory, inFlight, lastCall, sent, failures, clears>>

\* ------------------------------------------------------------------------
\* Inputs
\* ------------------------------------------------------------------------
ColA == <<1>>
ColB == <<2>>
ColC == <<3>>
ColU == <<21>>

WriteTable == ExcelAction("write", SingleCell(ColA, 1), None, Some(<<<<"x">>, <<"y">>>>), None, None, FALSE)
WriteTableForce == ExcelAction("write", SingleCell(ColA, 1), None, Some(<<<<"x">>, <<"y">>>>), None, None, TRUE)
\* The payload [["x"],["y"],["z"]] addressed to A2.
WriteColumn ==
  ExcelAction("write", SingleCell(ColA, 2), None, Some(<<<<"x">>, <<"y">>, <<"z">>>>), None, None, FALSE)
WriteValue == ExcelAction("write", SingleCell(ColC, 1), Some("x"), None, None, None, FALSE)
WriteBand == ExcelAction("write", SingleCell(ColU, 1), Some("x"), None, None, None, FALSE)
WriteBlank == ExcelAction("write", SingleCell(ColB, 1), None, Some(<<<<"">>>>), None, None, FALSE)
FormulaOne == ExcelAction("formula", SingleCell(ColB, 2), None, None, Some(<<"OK">>), None, FALSE)
FormulaBad == ExcelAction("formula", CellRange(ColA, 1, ColA, 2), None, None, None, Some(<<<<<<"=", "BAD">>>>, <<<<"=", "BAD">>>>>>), FALSE)
FormulaRange == ExcelAction("formula", CellRange(ColB, 1, ColB, 2), None, None, Some(<<"=", "SPILL">>), None, TRUE)
\* A formulas matrix with an entry that has the marker, one that lacks it and
\* an empty one.
FormulaColumn ==
  ExcelAction("formula", CellRange(ColB, 1, ColB, 3), None, None, None,
              Some(<<<<<<"=", "ZERO">>>>, <<<<"OK">>>>, <<<<>>>>>>), TRUE)
\* A single formula addressed to the two cells C1:C2, under the guard.
FormulaSpread ==
  ExcelAction("formula", CellRange(ColC, 1, ColC, 2), None, None, Some(<<"OK">>), None, FALSE)
FormatCells == ExcelAction("format", SingleCell(ColA, 1), None, None, None, None, FALSE)
\* A kind of the ExcelAction type that the switch has no case for.
CountByCategoryAction ==
  ExcelAction("countByCategory", SingleCell(ColA, 1), None, None, None, None, FALSE)

ActionPool == {WriteTable, WriteTableForce, WriteColumn, WriteValue, WriteBand, WriteBlank,
               FormulaOne, FormulaBad, FormulaRange, FormulaColumn, FormulaSpread, FormatCells,
               CountByCategoryAction}

Batches == UNION {[1..n -> ActionPool] : n \in 1..MaxBatch}

Filled(cells) == [rc \in cells |-> "old"]

EmptySheet == Filled({})
\* A1 holds data.
SheetCorner == Filled({<<1, 1>>})
\* C1 and E1 hold data: the used range is C1:E1 and the first candidate is column E.
SheetOffset == Filled({<<1, 3>>, <<1, 5>>})
\* U1:AM1 hold data: every candidate column of the search is occupied.
SheetBand == Filled({<<1, c>> : c \in 21..39})

\* A2 holds data.
SheetA2 == Filled({<<2, 1>>})

InitSheets == {EmptySheet, SheetCorner, SheetA2, SheetOffset, SheetBand}

\* ------------------------------------------------------------------------
\* executeActions / executeSingleAction
\* ------------------------------------------------------------------------
FreshCall(action, s) ==
  [action |-> action, before |-> s, after |-> s, finalRange |-> action.range,
   check |-> checkRangeForDataCatch, guardReads |-> 0, candidates |-> 0,
   probeFailed |-> FALSE, relocated |-> FALSE, written |-> None, thrown |-> None,
   rule |-> "", message |-> <<>>, formulas |-> None,
   result |-> None]

\* Variant: the loop stops at the first failed action.
AfterResultAbortOnFailure(result) == IF result.success THEN "begin" ELSE "done"

\* for (const action of actions) { ...; results.push(result); }
AfterResult(result) == "begin"

\* Variant: the error is thrown on instead of being mapped to a result.
CatchErrorRethrow(action, errorMsg) ==
  [rejects |-> TRUE, result |-> CaughtResult(action, errorMsg)]

\* The catch block of executeSingleAction: the call resolves with a result.
CatchError(action, errorMsg) ==
  [rejects |-> FALSE, result |-> CaughtResult(action, errorMsg)]

\* Variant: without an empty range the write goes to the requested range.
AfterSearchWriteAnyway(action, emptyRange) ==
  IF Has(emptyRange)
  THEN [proceed |-> TRUE, finalRange |-> emptyRange[1], relocated |-> TRUE]
  ELSE [proceed |-> TRUE, finalRange |-> action.range, relocated |-> FALSE]

\* if (emptyRange) { finalRange = emptyRange } else { return {success: false, ...} }
AfterSearch(action, emptyRange) ==
  IF Has(emptyRange)
  THEN [proceed |-> TRUE, finalRange |-> emptyRange[1], relocated |-> TRUE]
  ELSE [proceed |-> FALSE, finalRange |-> action.range, relocated |-> FALSE]

FreeChain == [pc |-> "free", root |-> "none", batch |-> <<>>, errRound |-> FALSE, resRound |-> FALSE,
              request |-> <<>>, outcome |-> "none", pendingAtStart |-> <<>>]

\* No direct call has been made.
FnIdle ==
  /\ called = "none"
  /\ argument = <<>>
  /\ returned = <<>>

\* No reply with calc actions is being processed: no call is awaited, no
\* timeout is armed, no Excel.run batch is in flight.
CalcIdle ==
  [pc |-> "idle", calcActions |-> <<>>, i |-> 0, calcResults |-> <<>>,
   calcActionResults |-> <<>>, retryCalcActions |-> <<>>, retryResults |-> <<>>,
   retryActionResults |-> <<>>, timer |-> FALSE, awaited |-> FALSE, abandoned |-> 0]

\* String(n) of a one-digit number
Digit(n) == <<"0", "1", "2", "3", "4", "5", "6", "7", "8", "9">>[n + 1]

\* private static readonly CALC_SHEET_NAME = "_AI_Calc"
CALC_SHEET_NAME == <<"_AI_Calc">>

\* Sheet names are strings, kept as token sequences; the second one holds an
\* underscore and a digit, the characters the cache keys are built with.
UserSheets == {<<"S">>, <<"S", "_", "1">>}
SheetNames == UserSheets \cup {CALC_SHEET_NAME}

\* A worksheet is the matrix of the cells of its used range, which starts at
\* A1.  A worksheet without a used range:
BlankSheet == <<>>

\* private readonly maxHistoryLength = 20
maxHistoryLength == 20

\* A chat message: its role and, in place of its text, the number of the call
\* that pushed it (0 for the system prompt).
SystemMessage == [role |-> "system", id |-> 0]
UserMessage(id) == [role |-> "user", id |-> id]
AssistantMessage(id) == [role |-> "assistant", id |-> id]

\* initializeConversation: the history is the system prompt alone.
initializeConversation == <<SystemMessage>>

\* A new service: the constructor has initialised the conversation.
ChatIdle ==
  /\ conversationHistory = initializeConversation
  /\ inFlight = {}
  /\ lastCall = None
  /\ sent = 0
  /\ failures = 0
  /\ clears = 0

\* A new workbook: two blank user sheets, no calc sheet, both index caches in
\* their field initialisers.
BookIdle ==
  /\ workbook = [n \in UserSheets |-> BlankSheet]
  /\ activeSheet = <<"S">>
  /\ lightweightIndexCache = None
  /\ lightweightIndexCacheKey = <<>>
  /\ dataIndexCache = None
  /\ dataIndexCacheKey = <<>>

\* The task pane at rest.
TurnIdle ==
  /\ isProcessing = FALSE
  /\ pendingActions = <<>>
  /\ lastActionResults = <<>>
  /\ chains = [k \in 1..MaxTurns |-> FreeChain]
  /\ turns = 0
  /\ shownIn = "none"

Init ==
  /\ sheet \in InitSheets
  /\ actions \in Batches
  /\ idx = 1
  /\ pc = "begin"
  /\ results = <<>>
  /\ cur = None
  /\ last = None
  /\ started = <<>>
  /\ editMode = "auto"
  /\ TurnIdle
  /\ FnIdle
  /\ calc = CalcIdle
  /\ BookIdle
  /\ ChatIdle

\* The call returns `result`: it is pushed and the loop goes on.
Complete(result, call) ==
  /\ results' = Append(results, result)
  /\ last' = Some([call EXCEPT !.after = sheet', !.result = Some(result)])
  /\ cur' = None
  /\ idx' = idx + 1
  /\ pc' = AfterResult(result)

\* executeSingleAction up to its first await.
BeginAction ==
  /\ pc = "begin"
  /\ idx <= Len(actions)
  /\ cur' = Some(FreshCall(actions[idx], sheet))
  /\ started' = Append(started, [idx |-> idx, have |-> Len(results)])
  /\ pc' = IF NeedsGuard(actions[idx]) THEN "probe" ELSE "mutate"
  /\ UNCHANGED <<sheet, actions, idx, results, last>>
  /\ UNCHANGED <<turnVars, fnVars, calcVars, bookVars, chatVars>>

\* await this.checkRangeForData(startAddress, numRows, numCols)
CheckRange ==
  /\ pc = "probe"
  /\ \E fails \in BOOLEAN :
       LET action == cur[1].action
           chk == IF fails THEN checkRangeForDataCatch
                  ELSE checkRangeForData(sheet, StartAddress(action.range),
                                         GuardRows(action), GuardCols(action))
       IN /\ cur' = Some([cur[1] EXCEPT !.check = chk, !.guardReads = @ + 1,
                                        !.probeFailed = fails])
          /\ pc' = IF chk.hasData THEN "find" ELSE "mutate"
  /\ UNCHANGED <<sheet, actions, idx, results, last, started>>
  /\ UNCHANGED <<turnVars, fnVars, calcVars, bookVars, chatVars>>

\* await this.findEmptyRangeForData(numRows, numCols)
FindEmptyRange ==
  /\ pc = "find"
  /\ UNCHANGED <<sheet, actions, started>>
  /\ UNCHANGED <<turnVars, fnVars, calcVars, bookVars, chatVars>>
  /\ \E fails \in BOOLEAN :
       LET action == cur[1].action
           emptyRange == IF fails THEN None
                         ELSE findEmptyRangeForData(sheet, GuardRows(action), GuardCols(action))
           probed == IF fails \/ HostUsedRange(sheet).isNullObject THEN 0
                     ELSE ProbedCandidates(sheet, HostUsedRange(sheet), GuardRows(action),
                                           GuardCols(action), FirstOffset)
           next == AfterSearch(action, emptyRange)
           call == [cur[1] EXCEPT !.finalRange = next.finalRange,
                                  !.relocated = next.relocated,
                                  !.candidates = probed,
                                  !.guardReads = @ + 1 + probed]
       IN IF next.proceed
          THEN /\ cur' = Some(call)
               /\ pc' = "mutate"
               /\ UNCHANGED <<idx, results, last>>
          ELSE Complete(GuardFailureResult(action), call)

\* await Excel.run(... switch (action.type) ... await context.sync())
RunMutation ==
  /\ pc = "mutate"
  /\ \E fails \in BOOLEAN :
       LET action == cur[1].action
           eff == IF fails THEN Threw(sheet, HostErrorText)
                  ELSE Dispatch(action, cur[1].finalRange, sheet)
       IN /\ sheet' = eff.sheet
          /\ IF eff.threw
             THEN LET c == CatchError(action, eff.error)
                      call == [cur[1] EXCEPT !.thrown = Some(eff.error)]
                  IN IF c.rejects
                     THEN /\ pc' = "rejected"
                          /\ cur' = Some(call)
                          /\ UNCHANGED <<idx, results, last>>
                     ELSE Complete(c.result, call)
             ELSE IF NeedsValidation(action)
                  THEN /\ cur' = Some([cur[1] EXCEPT !.written = eff.written,
                                                     !.message = DispatchMessage(action),
                                                     !.formulas =
                                                        IF action.type = "formula"
                                                        THEN AssignedFormulas(action)
                                                        ELSE None])
                       /\ pc' = "validate"
                       /\ UNCHANGED <<idx, results, last>>
                  ELSE Complete(PlainResult(action),
                                [cur[1] EXCEPT !.message = DispatchMessage(action)])
  /\ UNCHANGED <<actions, started>>
  /\ UNCHANGED <<turnVars, fnVars, calcVars, bookVars, chatVars>>

\* await this.validateWriteAction(action, finalRange)
ValidateWrite ==
  /\ pc = "validate"
  /\ UNCHANGED <<sheet, actions, started>>
  /\ UNCHANGED <<turnVars, fnVars, calcVars, bookVars, chatVars>>
  /\ \E fails \in BOOLEAN :
       LET action == cur[1].action
           v == IF fails THEN validateWriteActionCatch
                ELSE validateWriteAction(action, cur[1].finalRange, sheet)
       IN Complete(ValidatedResult(action, v.passed), [cur[1] EXCEPT !.rule = v.rule])

\* return results
ReturnResults ==
  /\ pc = "begin"
  /\ idx > Len(actions)
  /\ pc' = "done"
  /\ UNCHANGED <<sheet, actions, idx, results, cur, last, started>>
  /\ UNCHANGED <<turnVars, fnVars, calcVars, bookVars, chatVars>>

\* A cell value as readRange returns it: a number or a string.  A string is
\* the sequence of its pieces: "#", "ERROR" and the inverted exclamation
\* mark "!inv" are the pieces the check looks for.
Num(n) == [isNumber |-> TRUE, n |-> n, s |-> <<>>]
Str(str) == [isNumber |-> FALSE, n |-> 0, s |-> str]
Repeat(v, n) == [i \in 1..n |-> v]

IsNumber(v) == v.isNumber
IsString(v) == ~v.isNumber
IsZero(v) == v.isNumber /\ v.n = 0

\* Variant: only a leading "#" marks an error.
LooksLikeExcelErrorByHash(v) == ~v.isNumber /\ v.s # <<>> /\ v.s[1] = "#"

\* v.startsWith("#") || v.includes("ERROR") || v.includes("¡")
LooksLikeExcelError(v) ==
  /\ ~v.isNumber
  /\ \/ (v.s # <<>> /\ v.s[1] = "#")
     \/ \E i \in DOMAIN v.s : v.s[i] = "ERROR"
     \/ \E i \in DOMAIN v.s : v.s[i] = "!inv"

\* The body of the loop of verifyFormulaResults for one action: the anomaly
\* it records ("none": no anomaly; a failed read is caught and skipped).
\* The percentage is compared exactly; for the lengths of ReadPool the
\* floating-point comparison of the code gives the same answer.
FormulaAnomaly(read) ==
  IF read.threw THEN "none"
  ELSE LET numericValues == SelectSeq(read.cells, IsNumber)
           stringValues == SelectSeq(read.cells, IsString)
           errorValues == SelectSeq(stringValues, LooksLikeExcelError)
           zeroCount == Len(SelectSeq(numericValues, IsZero))
       IN IF Len(errorValues) > 0 THEN "errors"
          ELSE IF Len(numericValues) > 5 /\ zeroCount = Len(numericValues) THEN "allZero"
          ELSE IF Len(numericValues) > 10 /\ zeroCount * 100 > 90 * Len(numericValues)
               THEN "mostlyZero"
          ELSE "none"

HasAnomaly(read) == FormulaAnomaly(read) # "none"

\* verifyFormulaResults(formulaActions), given what each read returns
verifyFormulaResults(reads) ==
  LET anomalies == SelectSeq(reads, HasAnomaly)
  IN [needsCorrection |-> Len(anomalies) > 0, anomalies |-> Len(anomalies)]

\* range.values as numbers and strings: what the host shows for a cell.
TypedValue(v) ==
  IF v = "0" THEN Num(0)
  ELSE IF v = "7" THEN Num(7)
  ELSE IF v = "#REF!" THEN Str(<<"#", "REF!">>)
  ELSE IF v = "#SPILL!" THEN Str(<<"#", "SPILL!">>)
  ELSE Str(<<v>>)

\* excelService.readRange(range): Object.values of the non-empty cells of the
\* range, row by row.
readRange(s, range) ==
  LET reg == HostGetRange(range)
      all == [k \in 1..(RegionRows(reg) * RegionCols(reg)) |->
                CellValue(s, <<reg.r1 + ((k - 1) \div RegionCols(reg)),
                               reg.c1 + ((k - 1) % RegionCols(reg))>>)]
      nonEmpty == SelectSeq(all, IsNonEmpty)
  IN [k \in DOMAIN nonEmpty |-> TypedValue(nonEmpty[k])]

IsFormulaAction(action) == action.type = "formula"
EveryResultSucceeded == \A i \in DOMAIN results : results[i].success

\* acceptAllActions after executeActions returned without a failed result:
\* const formulaActions = state.pendingActions.filter(a => a.type === "formula");
\* await verifyFormulaResults(formulaActions), which reads action.range of
\* each of them.  The call is recorded with the range of every read.
VerifyWrittenFormulas ==
  /\ pc = "done"
  /\ EveryResultSucceeded
  /\ SelectSeq(actions, IsFormulaAction) # <<>>
  /\ \E failing \in SUBSET (DOMAIN SelectSeq(actions, IsFormulaAction)) :
       /\ called' = "verifyFormulaResults"
       /\ argument' = [k \in DOMAIN SelectSeq(actions, IsFormulaAction) |->
                         [threw |-> k \in failing,
                          cells |-> IF k \in failing THEN <<>>
                                    ELSE readRange(sheet, SelectSeq(actions, IsFormulaAction)[k].range),
                          range |-> SelectSeq(actions, IsFormulaAction)[k].range]]
       /\ returned' = verifyFormulaResults(argument')
  /\ pc' = "verified"
  /\ UNCHANGED <<sheet, actions, idx, results, cur, last, started>>
  /\ UNCHANGED <<turnVars, calcVars, bookVars, chatVars>>

Next ==
  \/ BeginAction
  \/ CheckRange
  \/ FindEmptyRange
  \/ RunMutation
  \/ ValidateWrite
  \/ ReturnResults
  \/ VerifyWrittenFormulas

Spec == Init /\ [][Next]_vars

\* ------------------------------------------------------------------------
\* Properties of executeActions
\* ------------------------------------------------------------------------
HoldsData(s, reg) == \E rc \in RegionCells(reg) : CellValue(s, rc) # ""

\* C1: a write or formula action whose allowOverwrite flag is not true never
\* changes the content of a cell that was non-empty immediately before the
\* action ran.
C1_NeverOverwritesData ==
  Has(last) =>
    LET e == last[1]
    IN (IsWriteKind(e.action) /\ ~e.action.allowOverwrite) =>
         \A rc \in DOMAIN e.before : CellValue(e.after, rc) = e.before[rc]

\* C5: a write or formula action without allowOverwrite whose requested
\* region holds data and which is executed writes a region that differs from
\* the requested one and was entirely empty before the write.
C5_OccupiedTargetIsRelocated ==
  Has(last) =>
    LET e == last[1]
    IN (/\ IsWriteKind(e.action) /\ ~e.action.allowOverwrite
        /\ HoldsData(e.before, RequestedRegion(e.action))
        /\ Has(e.written)) =>
         /\ e.written[1] # RequestedRegion(e.action)
         /\ ~HoldsData(e.before, e.written[1])

\* C6: with allowOverwrite = true the guard is skipped (no probe read, no
\* relocation) and the region written is the requested region, also when it
\* holds data.
C6_AllowOverwriteBypassesGuard ==
  /\ Has(cur) /\ IsWriteKind(cur[1].action) /\ cur[1].action.allowOverwrite =>
       /\ cur[1].guardReads = 0
       /\ cur[1].finalRange = cur[1].action.range
       /\ pc \in {"mutate", "validate"}
  /\ Has(last) =>
       LET e == last[1]
       IN (IsWriteKind(e.action) /\ e.action.allowOverwrite) =>
            /\ e.guardReads = 0
            /\ ~e.relocated
            /\ Has(e.written) => e.written[1] = RequestedRegion(e.action)

C6_Witness ==
  /\ Has(last)
  /\ last[1].action = WriteTableForce
  /\ HoldsData(last[1].before, RequestedRegion(WriteTableForce))
  /\ Has(last[1].written)
  /\ last[1].after[<<1, 1>>] = "x"
  /\ last[1].result[1].success

\* C7: when the target is occupied and the bounded search finds no empty
\* region, the action returns success = false with the descriptive error and
\* leaves the document unchanged.
C7_NoEmptyRegionFails ==
  Has(last) =>
    LET e == last[1]
    IN (NeedsGuard(e.action) /\ e.check.hasData /\ ~e.relocated) =>
         /\ ~e.result[1].success
         /\ e.result[1].error = Some(GuardErrorText)
         /\ e.written = None
         /\ e.after = e.before

C7_Witness ==
  /\ Has(last)
  /\ last[1].check.hasData
  /\ ~last[1].relocated
  /\ last[1].candidates = LastOffset - FirstOffset + 1
  /\ ~last[1].result[1].success
  /\ last[1].after = last[1].before
  /\ last[1].after # EmptySheet

\* C8: executeSingleAction never rejects; an error raised by the mutation
\* yields success = false with error set to the error's message.
C8_NeverRejects ==
  /\ pc # "rejected"
  /\ pc = "done" => Len(results) = Len(actions)
  /\ Has(last) =>
       LET e == last[1]
       IN Has(e.thrown) => /\ ~e.result[1].success
                           /\ e.result[1].error = e.thrown

C8_Witness ==
  /\ pc = "done"
  /\ Has(last)
  /\ last[1].thrown = Some(SizeMismatchText)
  /\ last[1].result[1].error = Some(SizeMismatchText)
  /\ \E i \in DOMAIN results : results[i].error = Some(HostErrorText)

\* C9: the actions run one after another in list order, a failed action does
\* not abort the batch, and the returned array has one result per action in
\* input order.
C9_SequentialNoAbort ==
  /\ \A k \in DOMAIN started : started[k].idx = k /\ started[k].have = k - 1
  /\ Len(started) <= Len(results) + 1
  /\ \A i \in DOMAIN results : results[i].action = actions[i]
  /\ pc = "done" => /\ Len(results) = Len(actions)
                    /\ Len(started) = Len(actions)

C9_Witness ==
  /\ pc = "done"
  /\ Len(results) = 2
  /\ ~results[1].success
  /\ results[2].success
  /\ Has(last[1].written)

\* C22: an action whose kind the dispatch switch has no case for takes the
\* default branch, is reported as an unknown action, and its ActionResult
\* does not report success.
C22_UnknownKindIsNotSuccess ==
  (Has(last) /\ last[1].action.type \notin HandledKinds) =>
    /\ last[1].after = last[1].before
    /\ Has(last[1].thrown) \/ last[1].message[1] = UnknownActionText
    /\ ~last[1].result[1].success

\* The search for an empty range ran to its end for the call that returned
\* last: the guard found data in the target and at least one candidate was
\* read.
Searched == Has(last) /\ last[1].check.hasData /\ last[1].candidates > 0

\* The candidate region at a column offset, as the call that returned last
\* saw it, and whether all its cells were empty.
CandidateAt(offset) ==
  HostGetRange(CandidateRange(HostUsedRange(last[1].before), offset,
                              GuardRows(last[1].action), GuardCols(last[1].action)))
EmptyAt(offset) == ~HoldsData(last[1].before, CandidateAt(offset))

HasPayload(action) ==
  \/ ArrLen(action.values) > 0
  \/ Has(action.value)
  \/ ArrLen(action.formulas) > 0
  \/ (Has(action.formula) /\ action.formula[1] # <<>>)
PayloadMatrix(action) ==
  IF ArrLen(action.values) > 0 THEN action.values[1]
  ELSE IF action.type = "formula" /\ ArrLen(action.formulas) > 0 THEN action.formulas[1]
  ELSE <<<<"">>>>
PayloadRows(action) == Len(PayloadMatrix(action))
PayloadCols(action) == Len(PayloadMatrix(action)[1])

\* The call that returned last was relocated and the host accepted its batch
\* as far as the host alone decides.
RelocatedRun ==
  /\ Has(last)
  /\ IsWriteKind(last[1].action)
  /\ HasPayload(last[1].action)
  /\ last[1].relocated
  /\ last[1].thrown # Some(HostErrorText)

\* C24: for every relocated write or formula action (values matrix, formulas
\* matrix, single value, single formula) the region written at the relocated
\* address has exactly the rows and columns of the action's payload.
C24_RelocatedRegionHasPayloadSize ==
  RelocatedRun =>
    /\ Has(last[1].written)
    /\ RegionRows(last[1].written[1]) = PayloadRows(last[1].action)
    /\ RegionCols(last[1].written[1]) = PayloadCols(last[1].action)

\* The call that returned last went through the collision guard.
GuardedRun == Has(last) /\ NeedsGuard(last[1].action)

\* The candidate the search of that call accepted.
AcceptedCandidate(call) ==
  CandidateRange(HostUsedRange(call.before), FirstOffset + call.candidates - 1,
                 GuardRows(call.action), GuardCols(call.action))

\* The cells the guard of that call probed: the requested start cell expanded
\* to the payload's dimensions and, after a relocation, the accepted candidate.
ProbedCells(call) ==
  RegionCells(RequestedRegion(call.action))
    \cup (IF call.relocated THEN RegionCells(HostGetRange(AcceptedCandidate(call))) ELSE {})

\* C31: every cell a guarded write or formula action writes is among the
\* cells its guard probed, the start cell expanded to the payload's rows and
\* columns; a single value or formula addressed to several cells writes none.
C31_WrittenCellsWereProbed ==
  GuardedRun =>
    /\ Has(last[1].written) => RegionCells(last[1].written[1]) \subseteq ProbedCells(last[1])
    /\ \A rc \in (DOMAIN last[1].before) \cup (DOMAIN last[1].after) :
         CellValue(last[1].before, rc) # CellValue(last[1].after, rc)
           => rc \in ProbedCells(last[1])

\* A two-row payload addressed to the single cell A1 of an empty sheet was
\* written to A1:A2, the region the guard probed.
C31_Witness ==
  /\ GuardedRun
  /\ last[1].action = WriteTable
  /\ ~last[1].relocated
  /\ last[1].written = Some(RequestedRegion(WriteTable))
  /\ RegionCells(last[1].written[1]) = {<<1, 1>>, <<2, 1>>}
  /\ CellValue(last[1].after, <<2, 1>>) = "y"

\* The single formula addressed to C1:C2 was rejected by the host: no cell
\* outside the probed C1 was written.
C31_SpreadRejected ==
  /\ GuardedRun
  /\ last[1].action = FormulaSpread
  /\ last[1].thrown = Some(SizeMismatchText)
  /\ last[1].after = last[1].before

\* The batch ran without a failed result and its formula actions were
\* checked; the last action of the batch is a formula action that the guard
\* relocated and that was written.
VerifiedRelocatedFormula ==
  /\ pc = "verified"
  /\ last[1].action.type = "formula"
  /\ last[1].relocated
  /\ Has(last[1].written)

\* C34: the suspicion check inspects the cells the formula action wrote: for
\* a formula action that the guard relocated, verifyFormulaResults reads the
\* relocated region, not the range requested.
C34_VerificationReadsWrittenCells ==
  VerifiedRelocatedFormula =>
    HostGetRange(argument[Len(argument)].range) = last[1].written[1]

\* The guarded call that returned last wrote to the region it asked for.
WroteRequestedRegion ==
  /\ GuardedRun
  /\ ~last[1].relocated
  /\ Has(last[1].written)

\* C37: a write or formula action without allowOverwrite writes to its
\* requested region only after a probe read of that region succeeded and
\* found it empty; when the probe read itself fails the action does not
\* write to the requested region.
C37_WritesOnlyAfterSuccessfulProbe ==
  WroteRequestedRegion =>
    /\ ~last[1].probeFailed
    /\ ~last[1].check.hasData
    /\ ~HoldsData(last[1].before, RequestedRegion(last[1].action))

\* The formula strings the call that returned last assigned to the range.
WroteFormulas == Has(last) /\ last[1].action.type = "formula" /\ Has(last[1].formulas)
FormulasGiven ==
  IF Has(last[1].action.formulas) THEN last[1].action.formulas[1]
  ELSE <<<<last[1].action.formula[1]>>>>
Entries(matrix) == {<<i, j>> : i \in DOMAIN matrix, j \in 1..Len(matrix[1])}

\* C25 as stated: every formula string a formula action writes, the single
\* formula and every entry of the formulas matrix, begins with "=", and a
\* string that already begins with "=" is written unchanged.
C25_EveryWrittenFormulaHasMarker ==
  WroteFormulas =>
    \A ij \in Entries(FormulasGiven) :
      LET given == FormulasGiven[ij[1]][ij[2]]
          wrote == last[1].formulas[1][ij[1]][ij[2]]
      IN /\ Len(wrote) > 0 /\ wrote[1] = "="
         /\ (Len(given) > 0 /\ given[1] = "=") => wrote = given

\* C25 as amended: every non-empty formula string written begins with "=", a
\* string that already begins with "=" is written unchanged, one that does
\* not gets exactly the marker in front, and an empty entry of the formulas
\* matrix is written as the empty string.
C25_NonEmptyWrittenFormulaHasMarker ==
  WroteFormulas =>
    \A ij \in Entries(FormulasGiven) :
      LET given == FormulasGiven[ij[1]][ij[2]]
          wrote == last[1].formulas[1][ij[1]][ij[2]]
      IN IF given = <<>> THEN wrote = <<>>
         ELSE IF given[1] = "=" THEN wrote = given
         ELSE wrote = <<"=">> \o given

C25_Witness ==
  /\ WroteFormulas
  /\ last[1].action = FormulaColumn
  /\ last[1].formulas = Some(<<<<<<"=", "ZERO">>>>, <<<<"=", "OK">>>>, <<<<>>>>>>)
  /\ last[1].after[<<2, 2>>] = "7"

\* The Excel.run batch of the call that returned last completed.
MutationCompleted == last[1].message # <<>>

\* C29: an ActionResult has validated = true if and only if its action is of
\* kind write or formula and the mutation completed without error; for every
\* other kind and for every failed action validated is not true and
\* validationPassed is absent.
C29_ValidatedIffWriteCompleted ==
  Has(last) =>
    LET e == last[1]
        res == last[1].result[1]
    IN /\ res.validated = Some(TRUE) <=> (IsWriteKind(e.action) /\ MutationCompleted)
       /\ res.validated = Some(TRUE) => /\ res.success
                                        /\ Has(res.validationPassed)
       /\ res.validated # Some(TRUE) => res.validationPassed = None
       /\ ~res.success => res.validated # Some(TRUE)

\* A batch whose format action got validated = false and whose formula action
\* was validated.
C29_Witness ==
  /\ pc = "done"
  /\ Len(results) = 2
  /\ results[1].action = FormatCells
  /\ results[1].success
  /\ results[1].validated = Some(FALSE)
  /\ results[2].action = FormulaOne
  /\ results[2].validated = Some(TRUE)
  /\ results[2].validationPassed = Some(TRUE)

\* ------------------------------------------------------------------------
\* parseStructuredResponse.  A raw response is a sequence of tokens, each
\* standing for a piece of text:
\*   "p"   prose without braces, quotes or backticks
\*   "J"   an opening json code fence       "F"   a bare code fence
\*   "{" "}" "," "]"        the JSON punctuation
\*   "m"   "message":"hi"   "e"   "message":""   "n"   "message":42
\*   "a["  "actions":[
\*   "c"   "type":"calc","formula":"=1"
\*   "w"   "type":"write","range":"A1","value":1
\*   "d{"  "description":"{"      "d}"  "description":"}"
\*   "cut" a piece of text that ends or starts inside a string literal
\* ------------------------------------------------------------------------
StrVal(text) == [isString |-> TRUE, text |-> text]
NumVal(text) == [isString |-> FALSE, text |-> text]

IsFence(tok) == tok = "J" \/ tok = "F"
IsBrace(tok) == tok = "{" \/ tok = "}"
IsMessageKey(tok) == tok \in {"m", "e", "n"}
IsMember(tok) == tok \in {"m", "e", "n", "c", "w", "d{", "d}"}

\* The text of the token holds the character "{", or "}".
HasOpenBrace(tok) == tok \in {"{", "d{"}
HasCloseBrace(tok) == tok \in {"}", "d}"}

\* The object a JSON text denotes so far: its message, actions and type.
EmptyObject == [message |-> None, actions |-> None, type |-> None, description |-> None]

WithMember(obj, tok) ==
  IF tok = "m" THEN [obj EXCEPT !.message = Some(StrVal(<<"hi">>))]
  ELSE IF tok = "e" THEN [obj EXCEPT !.message = Some(StrVal(<<>>))]
  ELSE IF tok = "n" THEN [obj EXCEPT !.message = Some(NumVal(<<"42">>))]
  ELSE IF tok = "c" THEN [obj EXCEPT !.type = Some("calc")]
  ELSE IF tok = "d{" THEN [obj EXCEPT !.description = Some("{")]
  ELSE IF tok = "d}" THEN [obj EXCEPT !.description = Some("}")]
  ELSE [obj EXCEPT !.type = Some("write")]

JsonError == [ok |-> FALSE, value |-> EmptyObject, next |-> 0]

\* JSON.parse, by recursive descent: the object that starts at t[i], the
\* members of an object from t[i], the elements of an array from t[i].
RECURSIVE JsonObjectAt(_, _)
RECURSIVE JsonMemberAt(_, _, _)
RECURSIVE JsonMembers(_, _, _)
RECURSIVE AfterMember(_, _)
RECURSIVE JsonElements(_, _, _)
RECURSIVE AfterElement(_, _, _)
JsonObjectAt(t, i) ==
  IF i + 1 > Len(t) \/ t[i] # "{" THEN JsonError
  ELSE IF t[i + 1] = "}" THEN [ok |-> TRUE, value |-> EmptyObject, next |-> i + 2]
  ELSE JsonMembers(t, i + 1, EmptyObject)

\* The member "actions": [...] of obj, given its array.
ArrayMember(obj, arr) ==
  IF arr.ok
  THEN [ok |-> TRUE, value |-> [obj EXCEPT !.actions = Some(arr.value)], next |-> arr.next]
  ELSE JsonError

\* obj with the member that starts at t[i].
JsonMemberAt(t, i, obj) ==
  IF IsMember(t[i])
  THEN [ok |-> TRUE, value |-> WithMember(obj, t[i]), next |-> i + 1]
  ELSE IF t[i] = "a["
  THEN ArrayMember(obj, IF i + 1 <= Len(t) /\ t[i + 1] = "]"
                        THEN [ok |-> TRUE, value |-> <<>>, next |-> i + 2]
                        ELSE JsonElements(t, i + 1, <<>>))
  ELSE JsonError

\* After a member: the object ends, or another member follows.
AfterMember(t, member) ==
  IF ~member.ok \/ member.next > Len(t) THEN JsonError
  ELSE IF t[member.next] = "}"
       THEN [ok |-> TRUE, value |-> member.value, next |-> member.next + 1]
  ELSE IF t[member.next] = ","
       THEN JsonMembers(t, member.next + 1, member.value)
  ELSE JsonError

JsonMembers(t, i, obj) ==
  IF i > Len(t) THEN JsonError ELSE AfterMember(t, JsonMemberAt(t, i, obj))

\* After an element: the array ends, or another element follows.
AfterElement(t, items, element) ==
  IF ~element.ok \/ element.next > Len(t) THEN JsonError
  ELSE IF t[element.next] = "]"
       THEN [ok |-> TRUE, value |-> Append(items, element.value), next |-> element.next + 1]
  ELSE IF t[element.next] = ","
       THEN JsonElements(t, element.next + 1, Append(items, element.value))
  ELSE JsonError

JsonElements(t, i, items) == AfterElement(t, items, JsonObjectAt(t, i))

\* The text without leading and trailing whitespace: no token is whitespace.
Trim(t) == t

\* JSON.parse(text): the whole text must be one value (here: one object).
WholeText(t, top) ==
  IF top.ok /\ top.next = Len(t) + 1
  THEN [ok |-> TRUE, value |-> top.value]
  ELSE [ok |-> FALSE, value |-> EmptyObject]

JsonParse(text) == WholeText(Trim(text), JsonObjectAt(Trim(text), 1))

\* The least index i >= from with t[i] \in toks (0: there is none).
FirstIn(t, toks, from) ==
  LET hits == {i \in from..Len(t) : t[i] \in toks}
  IN IF hits = {} THEN 0 ELSE SetMin(hits)

\* The greatest index i with t[i] \in toks (0: there is none).
LastIn(t, toks) ==
  LET hits == {i \in 1..Len(t) : t[i] \in toks}
  IN IF hits = {} THEN 0 ELSE SetMax(hits)

\* What one extraction strategy gives: an exception, a response, or nothing.
NotFound == [threw |-> FALSE, found |-> FALSE, message |-> StrVal(<<>>), actions |-> None]
Found(message, acts) ==
  [threw |-> FALSE, found |-> TRUE, message |-> message, actions |-> acts]
Thrown == [threw |-> TRUE, found |-> FALSE, message |-> StrVal(<<>>), actions |-> None]

\* Variant: any object that parses is accepted, whatever its message is.
WithAnyMessage(parsed) ==
  IF ~parsed.ok THEN NotFound
  ELSE IF Has(parsed.value.message)
       THEN Found(parsed.value.message[1], parsed.value.actions)
       ELSE Found(StrVal(<<>>), parsed.value.actions)

\* if (parsed.message && typeof parsed.message === "string") return {...}; the
\* catch block returns null.
WithMessage(parsed) ==
  IF ~parsed.ok THEN NotFound
  ELSE IF Has(parsed.value.message) /\ parsed.value.message[1].isString
          /\ parsed.value.message[1].text # <<>>
       THEN Found(parsed.value.message[1], parsed.value.actions)
       ELSE NotFound

\* textBefore || fallback
TextOr(textBefore, fallback) ==
  IF Trim(textBefore) # <<>> THEN StrVal(Trim(textBefore)) ELSE StrVal(<<fallback>>)

\* const action = JSON.parse(...); return { message: textBefore || fallback,
\* actions: [action] }; a parse error is caught.
SingleAction(action, textBefore, fallback) ==
  IF action.ok THEN Found(TextOr(textBefore, fallback), Some(<<action.value>>))
  ELSE NotFound

\* Variant: the JSON.parse of tryParseJson is not inside a try block.
tryParseJsonUncaught(jsonStr) ==
  IF JsonParse(jsonStr).ok THEN WithMessage(JsonParse(jsonStr)) ELSE Thrown

\* tryParseJson: a parse error is caught; the object must have a non-empty
\* string message.
tryParseJson(jsonStr) == WithMessage(JsonParse(jsonStr))

\* Strategy 1: the text between a json fence and the next fence.
JsonBlock(content) ==
  LET open == FirstIn(content, {"J"}, 1)
      close == IF open = 0 THEN 0 ELSE FirstIn(content, {"J", "F"}, open + 1)
  IN IF close = 0 THEN NotFound
     ELSE tryParseJson(SubSeq(content, open + 1, close - 1))

\* Strategy 2: the text between the first fence and the next one, when it
\* starts with "{" (after a json fence it starts with the word json).
CodeBlock(content) ==
  LET open == FirstIn(content, {"J", "F"}, 1)
      close == IF open = 0 THEN 0 ELSE FirstIn(content, {"J", "F"}, open + 1)
      inner == IF close = 0 THEN <<>>
               ELSE (IF content[open] = "J" THEN <<"json">> ELSE <<>>)
                      \o SubSeq(content, open + 1, close - 1)
  IN IF close # 0 /\ inner # <<>> /\ inner[1] = "{" THEN tryParseJson(inner)
     ELSE NotFound

\* content.substring from the "{" of token i to the "}" of token j: a token
\* whose brace lies inside a string literal is cut through.
Cut(content, i, j) ==
  [k \in 1..(j - i + 1) |->
     IF (k = 1 /\ content[i] = "d{") \/ (k = j - i + 1 /\ content[j] = "d}")
     THEN "cut" ELSE content[i + k - 1]]

\* The "}" that closes a brace-free stretch starting at the "{" at i and
\* holding "type":"calc" (0: the regular expression does not match at i).
CalcObjectEnd(content, i) ==
  LET j == FirstIn(content, {"{", "}", "d{", "d}"}, i + 1)
  IN IF HasOpenBrace(content[i]) /\ j # 0 /\ HasCloseBrace(content[j])
        /\ \E k \in (i + 1)..(j - 1) : content[k] = "c"
     THEN j ELSE 0

\* Strategy 3: the leftmost brace-free object with "type":"calc".
CalcAction(content) ==
  LET starts == {i \in 1..Len(content) : CalcObjectEnd(content, i) # 0}
  IN IF starts = {} THEN NotFound
     ELSE LET i == SetMin(starts)
          IN SingleAction(JsonParse(Cut(content, i, CalcObjectEnd(content, i))),
                          SubSeq(content, 1, i - 1), "Procesando calculo...")

\* Strategy 4: from the leftmost "{" that is followed by "message", later
\* "actions", later "}", up to the last "}" of the content.
DirectJson(content) ==
  LET starts == {i \in 1..Len(content) :
                   /\ HasOpenBrace(content[i])
                   /\ \E a \in (i + 1)..Len(content) : \E b \in (a + 1)..Len(content) :
                        \E c \in (b + 1)..Len(content) :
                          /\ IsMessageKey(content[a]) /\ content[b] = "a["
                          /\ HasCloseBrace(content[c])}
  IN IF starts = {} THEN NotFound
     ELSE tryParseJson(Cut(content, SetMin(starts), LastIn(content, {"}", "d}"})))

\* The index after the "}" that balances the "{" at i, counting every "{" and
\* "}" character from i, those inside string literals too (i itself: the
\* braces never balance and endIdx stays at startIdx).
RECURSIVE BalancedEnd(_, _, _, _)
BalancedEnd(content, startIdx, i, braceCount) ==
  IF i > Len(content) THEN startIdx
  ELSE LET count == IF HasOpenBrace(content[i]) THEN braceCount + 1
                    ELSE IF HasCloseBrace(content[i]) THEN braceCount - 1
                    ELSE braceCount
       IN IF count = 0 THEN i + 1
          ELSE BalancedEnd(content, startIdx, i + 1, count)

\* Strategy 5: the leftmost object that begins with {"type": taken up to its
\* balancing brace.
DirectAction(content) ==
  LET starts == {i \in 1..(Len(content) - 1) :
                   content[i] = "{" /\ content[i + 1] \in {"c", "w"}}
  IN IF starts = {} THEN NotFound
     ELSE LET startIdx == SetMin(starts)
              endIdx == BalancedEnd(content, startIdx, startIdx, 0)
          IN SingleAction(JsonParse(Cut(content, startIdx, endIdx - 1)),
                          SubSeq(content, 1, startIdx - 1), "Procesando...")

\* Strategy 6: the whole response is one JSON object.
WholeJson(content) ==
  LET trimmed == Trim(content)
  IN IF trimmed # <<>> /\ trimmed[1] = "{" /\ trimmed[Len(trimmed)] = "}"
     THEN tryParseJson(trimmed)
     ELSE NotFound

\* Variant: the last strategy that returns or throws decides.
DecidedByLast(tries, content) ==
  LET deciding == {i \in DOMAIN tries : tries[i].threw \/ tries[i].found}
  IN IF deciding = {}
     THEN [threw |-> FALSE, strategy |-> 0, message |-> StrVal(content), actions |-> None]
     ELSE LET i == SetMax(deciding)
          IN [threw |-> tries[i].threw, strategy |-> i,
              message |-> tries[i].message, actions |-> tries[i].actions]

\* parseStructuredResponse: the first strategy that returns or throws decides
\* (strategy 0: the content is returned as the message).
Decided(tries, content) ==
  LET deciding == {i \in DOMAIN tries : tries[i].threw \/ tries[i].found}
  IN IF deciding = {}
     THEN [threw |-> FALSE, strategy |-> 0, message |-> StrVal(content), actions |-> None]
     ELSE LET i == SetMin(deciding)
          IN [threw |-> tries[i].threw, strategy |-> i,
              message |-> tries[i].message, actions |-> tries[i].actions]

parseStructuredResponse(content) ==
  Decided(<<JsonBlock(content), CodeBlock(content), CalcAction(content),
            DirectJson(content), DirectAction(content), WholeJson(content)>>, content)

\* ------------------------------------------------------------------------
\* Task pane: sendMessage, acceptAllActions and the correction requests.
\*
\* A chain is one async call chain started by a user event.  Its pc names
\* the await it is suspended at; its root names the outermost function, whose
\* finally block runs when the chain unwinds; errRound and resRound record
\* that the chain has sent a correction request of that kind (history).  What runs between two awaits,
\* including the continuations of the callers of a function that returns, is
\* one step.
\* ------------------------------------------------------------------------
AgentBatches == {<<WriteBlank>>, <<FormatCells, FormulaOne>>}

\* A response of the model that is text only.
PlainText == <<"p">>

\* return this.parseStructuredResponse(assistantMessage), for a text-only
\* response: what sendMessage receives.
PlainTextReply ==
  LET response == parseStructuredResponse(PlainText)
  IN [threw |-> response.threw,
      actions |-> IF Has(response.actions) THEN response.actions[1] ELSE <<>>]

\* What sendMessageStructured can give: a transport error, a reply without
\* actions (a text-only response among them), or a reply with actions.
AgentReplies == {[threw |-> TRUE, actions |-> <<>>], PlainTextReply}
                  \cup {[threw |-> FALSE, actions |-> b] : b \in AgentBatches \cup {<<>>}}

IsExecutable(action) == action.type # "read"

\* response.actions.filter(a => a.type !== "read")
ExecutableActions(reply) == SelectSeq(reply.actions, IsExecutable)

\* Variant: every reply that arrives is treated as carrying actions.
HasExecutableActionsAlways(reply) == ~reply.threw

\* response.actions && response.actions.length > 0, and then
\* executableActions.length > 0
HasExecutableActions(reply) ==
  ~reply.threw /\ reply.actions # <<>> /\ ExecutableActions(reply) # <<>>

\* How the agent's reply is recorded on the chain ("text": a reply as a
\* text-only response gives).
Outcome(reply) == IF reply = PlainTextReply THEN "text" ELSE "none"

\* The chain of a turn that is over.
Finished(reply) == [FreeChain EXCEPT !.outcome = Outcome(reply)]

\* The results executeSingleAction can return for an action.
ResultShapes(action) ==
  {CaughtResult(action, HostErrorText)}
    \cup (IF NeedsGuard(action) THEN {GuardFailureResult(action)} ELSE {})
    \cup (IF IsWriteKind(action)
          THEN {ValidatedResult(action, TRUE), ValidatedResult(action, FALSE)}
          ELSE {PlainResult(action)})

\* The arrays executeActions can resolve with for a batch.
PossibleResults(batch) ==
  {r \in [DOMAIN batch -> UNION {ResultShapes(batch[i]) : i \in DOMAIN batch}] :
     \A i \in DOMAIN batch : r[i] \in ResultShapes(batch[i])}

\* results.length - results.filter(r => r.success).length
ErrorCount(rs) == Cardinality({i \in DOMAIN rs : ~rs[i].success})

IsFormula(action) == action.type = "formula"

\* `- Accion "${r.action.type}" en ${r.action.range}: ${r.error}`
ErrorDetail(r) == [type |-> r.action.type, range |-> r.action.range, error |-> r.error]

Failed(r) == ~r.success

\* Variant: the request lists every action of the batch.
ErrorDetailsUnfiltered(rs) == [i \in DOMAIN rs |-> ErrorDetail(rs[i])]

\* requestErrorCorrection: results.filter(r => !r.success).map(...): the
\* lines of the correction request.
ErrorDetails(rs) ==
  LET failedActions == SelectSeq(rs, Failed)
  IN [i \in DOMAIN failedActions |-> ErrorDetail(failedActions[i])]

\* The finally block of the root of a chain.
Unwound(root, processing) ==
  IF root \in {"send", "silent"} THEN FALSE ELSE processing

\* if (errorCount === 0) {...} else { setLoading(false); requestErrorCorrection(results); return; }
StartsErrorCorrection(rs) == ErrorCount(rs) # 0

TurnInit ==
  /\ sheet = EmptySheet
  /\ actions = <<>>
  /\ idx = 1
  /\ pc = "off"
  /\ results = <<>>
  /\ cur = None
  /\ last = None
  /\ started = <<>>
  /\ editMode \in {"auto", "ask"}
  /\ TurnIdle
  /\ FnIdle
  /\ calc = CalcIdle
  /\ BookIdle
  /\ ChatIdle

\* sendMessage up to its first await
sendMessage(k) ==
  /\ k = turns + 1 /\ k <= MaxTurns
  /\ ~isProcessing
  /\ turns' = k
  /\ pendingActions' = <<>>
  /\ shownIn' = "none"
  /\ isProcessing' = TRUE
  /\ chains' = [chains EXCEPT ![k] = [FreeChain EXCEPT !.pc = "context", !.root = "send",
                                                       !.pendingAtStart = pendingActions]]
  /\ UNCHANGED <<editMode, lastActionResults>>
  /\ UNCHANGED <<execVars, fnVars, calcVars, bookVars, chatVars>>

\* sendMessageSilent up to its first await
sendMessageSilent(k) ==
  /\ k = turns + 1 /\ k <= MaxTurns
  /\ ~isProcessing
  /\ turns' = k
  /\ isProcessing' = TRUE
  /\ chains' = [chains EXCEPT ![k] = [FreeChain EXCEPT !.pc = "context", !.root = "silent",
                                                       !.pendingAtStart = pendingActions]]
  /\ UNCHANGED <<pendingActions, shownIn, editMode, lastActionResults>>
  /\ UNCHANGED <<execVars, fnVars, calcVars, bookVars, chatVars>>

\* A click on the accept button (enabled while not processing and actions
\* are pending): acceptAllActions up to its first await.
ClickAccept(k) ==
  /\ k = turns + 1 /\ k <= MaxTurns
  /\ ~isProcessing /\ pendingActions # <<>>
  /\ turns' = k
  /\ isProcessing' = TRUE
  /\ chains' = [chains EXCEPT ![k] = [FreeChain EXCEPT !.pc = "exec", !.root = "click",
                                                       !.batch = pendingActions]]
  /\ UNCHANGED <<pendingActions, shownIn, editMode, lastActionResults>>
  /\ UNCHANGED <<execVars, fnVars, calcVars, bookVars, chatVars>>

toggleEditMode ==
  /\ \E k \in 1..MaxTurns : chains[k].pc # "free"
  /\ editMode' = IF editMode = "auto" THEN "ask" ELSE "auto"
  /\ UNCHANGED <<isProcessing, pendingActions, shownIn, lastActionResults, chains, turns>>
  /\ UNCHANGED <<execVars, fnVars, calcVars, bookVars, chatVars>>

\* The context of the request has been gathered; the request goes to the agent.
ContextGathered(k) ==
  /\ chains[k].pc = "context"
  /\ chains' = [chains EXCEPT ![k].pc = "agent"]
  /\ UNCHANGED <<isProcessing, pendingActions, shownIn, editMode, lastActionResults, turns>>
  /\ UNCHANGED <<execVars, fnVars, calcVars, bookVars, chatVars>>

\* The agent's reply to the user's message arrives.
AgentReplied(k) ==
  /\ chains[k].pc = "agent"
  /\ \E reply \in AgentReplies :
       IF HasExecutableActions(reply)
       THEN /\ pendingActions' = ExecutableActions(reply)
            /\ shownIn' = editMode
            /\ IF editMode = "auto"
               THEN /\ isProcessing' = IF chains[k].root = "send" THEN FALSE ELSE isProcessing
                    /\ chains' = [chains EXCEPT ![k].pc = "pause",
                                                ![k].outcome = Outcome(reply),
                                                ![k].pendingAtStart = <<>>]
               ELSE /\ isProcessing' = FALSE
                    /\ chains' = [chains EXCEPT ![k] = Finished(reply)]
       ELSE /\ isProcessing' = FALSE
            /\ chains' = [chains EXCEPT ![k] = Finished(reply)]
            /\ UNCHANGED <<pendingActions, shownIn>>
  /\ UNCHANGED <<editMode, lastActionResults, turns>>
  /\ UNCHANGED <<execVars, fnVars, calcVars, bookVars, chatVars>>

\* The 300 ms pause before the automatic execution is over: acceptAllActions
\* up to its first await.
PauseElapsed(k) ==
  /\ chains[k].pc = "pause"
  /\ IF pendingActions = <<>>
     THEN /\ isProcessing' = Unwound(chains[k].root, isProcessing)
          /\ chains' = [chains EXCEPT ![k] = FreeChain]
     ELSE /\ isProcessing' = TRUE
          /\ chains' = [chains EXCEPT ![k].pc = "exec", ![k].batch = pendingActions]
  /\ UNCHANGED <<pendingActions, shownIn, editMode, lastActionResults, turns>>
  /\ UNCHANGED <<execVars, fnVars, calcVars, bookVars, chatVars>>

\* await excelService.executeActions(state.pendingActions) resolves.
ActionsExecuted(k) ==
  /\ chains[k].pc = "exec"
  /\ \E rs \in PossibleResults(chains[k].batch) :
       /\ lastActionResults' = rs
       /\ IF StartsErrorCorrection(rs)
          THEN /\ isProcessing' = Unwound(chains[k].root, TRUE)
               /\ chains' = [chains EXCEPT ![k].pc = "recContext", ![k].root = "errcorr",
                                           ![k].request = ErrorDetails(rs)]
          ELSE /\ chains' = [chains EXCEPT ![k].pc = "highlight"]
               /\ UNCHANGED isProcessing
  /\ UNCHANGED <<pendingActions, shownIn, editMode, turns>>
  /\ UNCHANGED <<execVars, fnVars, calcVars, bookVars, chatVars>>

\* The highlight of the first range is over.
Highlighted(k) ==
  /\ chains[k].pc = "highlight"
  /\ IF SelectSeq(pendingActions, IsFormula) # <<>>
     THEN /\ chains' = [chains EXCEPT ![k].pc = "verify"]
          /\ UNCHANGED <<isProcessing, pendingActions, shownIn>>
     ELSE /\ pendingActions' = <<>>
          /\ shownIn' = "none"
          /\ isProcessing' = FALSE
          /\ chains' = [chains EXCEPT ![k] = FreeChain]
  /\ UNCHANGED <<editMode, lastActionResults, turns>>
  /\ UNCHANGED <<execVars, fnVars, calcVars, bookVars, chatVars>>

\* await verifyFormulaResults(formulaActions) resolves.
FormulasVerified(k) ==
  /\ chains[k].pc = "verify"
  /\ pendingActions' = <<>>
  /\ shownIn' = "none"
  /\ \E needsCorrection \in BOOLEAN :
       IF needsCorrection
       THEN /\ isProcessing' = TRUE
            /\ chains' = [chains EXCEPT ![k].pc = "rrcIndex"]
       ELSE /\ isProcessing' = FALSE
            /\ chains' = [chains EXCEPT ![k] = FreeChain]
  /\ UNCHANGED <<editMode, lastActionResults, turns>>
  /\ UNCHANGED <<execVars, fnVars, calcVars, bookVars, chatVars>>

\* requestErrorCorrection / requestResultCorrection: the context is rebuilt
\* and the correction request goes to the agent.
CorrectionRequested(k) ==
  /\ chains[k].pc \in {"recContext", "rrcIndex"}
  /\ chains' = IF chains[k].pc = "recContext"
               THEN [chains EXCEPT ![k].pc = "recAgent", ![k].errRound = TRUE]
               ELSE [chains EXCEPT ![k].pc = "rrcAgent", ![k].resRound = TRUE]
  /\ UNCHANGED <<isProcessing, pendingActions, shownIn, editMode, lastActionResults, turns>>
  /\ UNCHANGED <<execVars, fnVars, calcVars, bookVars, chatVars>>

\* The agent's reply to a correction request arrives.
CorrectionReplied(k) ==
  /\ chains[k].pc \in {"recAgent", "rrcAgent"}
  /\ \E reply \in AgentReplies :
       IF ~reply.threw /\ reply.actions # <<>>
       THEN /\ pendingActions' = reply.actions
            /\ shownIn' = editMode
            /\ IF editMode = "auto"
               THEN /\ chains' = [chains EXCEPT ![k].pc = "pause", ![k].request = <<>>]
                    /\ UNCHANGED isProcessing
               ELSE /\ isProcessing' = FALSE
                    /\ chains' = [chains EXCEPT ![k] = FreeChain]
       ELSE /\ isProcessing' = FALSE
            /\ chains' = [chains EXCEPT ![k] = FreeChain]
            /\ UNCHANGED <<pendingActions, shownIn>>
  /\ UNCHANGED <<editMode, lastActionResults, turns>>
  /\ UNCHANGED <<execVars, fnVars, calcVars, bookVars, chatVars>>

ChainStep(k) ==
  \/ ContextGathered(k)
  \/ AgentReplied(k)
  \/ PauseElapsed(k)
  \/ ActionsExecuted(k)
  \/ Highlighted(k)
  \/ FormulasVerified(k)
  \/ CorrectionRequested(k)
  \/ CorrectionReplied(k)

TurnNext ==
  \/ \E k \in 1..MaxTurns : sendMessage(k)
  \/ \E k \in 1..MaxTurns : sendMessageSilent(k)
  \/ \E k \in 1..MaxTurns : ClickAccept(k)
  \/ toggleEditMode
  \/ \E k \in 1..MaxTurns : ChainStep(k)

TurnSpec == TurnInit /\ [][TurnNext]_vars

\* Every await of a running chain eventually resolves; user events are free.
FairTurnSpec == TurnSpec /\ \A k \in 1..MaxTurns : WF_vars(ChainStep(k))

\* ------------------------------------------------------------------------
\* Properties of the execute -> validate -> correct loop
\* ------------------------------------------------------------------------
Running(k) == chains[k].pc # "free"

ValidationFailed(rs) ==
  \E i \in DOMAIN rs : rs[i].validationPassed = Some(FALSE)

\* C2: every user turn reaches a terminal state after finitely many rounds:
\* eventually no further correction request is sent to the agent and
\* isProcessing is false.
C2_TurnTerminates ==
  \A k \in 1..MaxTurns : Running(k) ~> (~Running(k) /\ ~isProcessing)

\* C3: within one user turn at most one correction round is started for hard
\* failures and at most one more for suspicious results: a chain that has
\* already sent a correction request of a kind sends no second one.
C3_OneRoundPerKind ==
  [][\A k \in 1..MaxTurns :
       /\ (chains[k].pc = "recContext" /\ chains'[k].pc = "recAgent") => ~chains[k].errRound
       /\ (chains[k].pc = "rrcIndex" /\ chains'[k].pc = "rrcAgent") => ~chains[k].resRound]_vars

\* C4: from the moment a turn is accepted until its last batch and last
\* correction round have finished, isProcessing stays true, so no second
\* turn is started in between.
C4_OneTurnAtATime ==
  /\ (\E k \in 1..MaxTurns : Running(k)) => isProcessing
  /\ Cardinality({k \in 1..MaxTurns : Running(k)}) <= 1

\* Chain k is inside acceptAllActions: between setLoading(true) and the end
\* of the function.
InAccept(k) == chains[k].pc \in {"exec", "highlight", "verify"}

\* C35: a pending batch is executed at most once: in every interleaving of
\* the automatic run of sendMessage with a click on the accept button, no
\* two runs of acceptAllActions overlap, and executeActions is never running
\* twice for the same pending batch.
C35_PendingBatchExecutedOnce ==
  \A j \in 1..MaxTurns : \A k \in 1..MaxTurns :
    j # k =>
      /\ ~(InAccept(j) /\ InAccept(k))
      /\ ~(chains[j].pc = "exec" /\ chains[k].pc = "exec"
             /\ chains[j].batch = chains[k].batch)

\* Chain k has executed a batch and is about to end its turn.
AfterExecution(k) == chains[k].pc \in {"highlight", "verify", "recAgent", "rrcAgent"}
AllChainsFree == \A k \in 1..MaxTurns : chains[k].pc = "free"

\* C36: when a turn that executed a batch in auto mode reaches its terminal
\* state (isProcessing false, nothing in flight), pendingActions is empty,
\* also when the correction response carries no actions or the correction
\* request fails.
C36_NothingPendingAfterAutoRun ==
  [][\A k \in 1..MaxTurns :
       (/\ AfterExecution(k)
        /\ editMode = "auto"
        /\ AllChainsFree' /\ ~isProcessing')
         => pendingActions' = <<>>]_vars

\* The step is the arrival, in ask mode, of a reply with actions on chain k.
AskReplyArrives(k) ==
  /\ chains[k].pc \in {"agent", "recAgent", "rrcAgent"}
  /\ editMode = "ask"
  /\ chains'[k].pc # chains[k].pc
  /\ shownIn' = "ask" /\ pendingActions' # <<>>
  /\ pendingActions' # pendingActions

\* The step starts executeActions on chain k.
ExecutionStarts(k) == chains[k].pc # "exec" /\ chains'[k].pc = "exec"

\* C39: when editMode is "ask" at the time a reply with actions arrives, the
\* actions are only shown as pending: the chain of the reply ends without
\* executing, and actions shown in ask mode are executed only by a click of
\* the user on the accept button.
C39_AskModeWaitsForAccept ==
  [][\A k \in 1..MaxTurns :
       /\ AskReplyArrives(k) =>
            /\ chains'[k].pc = "free"
            /\ lastActionResults' = lastActionResults
       /\ (ExecutionStarts(k) /\ shownIn = "ask") =>
            /\ chains[k].pc = "free"
            /\ chains'[k].root = "click"]_vars

\* C10: when a batch executed by acceptAllActions contains a write or formula
\* action whose post-write validation failed, a correction round is started
\* for that turn: the chain of such a batch does not finish from the highlight
\* or the formula verification without a correction request.
C10_ValidationFailureStartsCorrection ==
  [][\A k \in 1..MaxTurns :
       (chains[k].pc \in {"highlight", "verify"} /\ chains'[k].pc = "free")
         => ~ValidationFailed(lastActionResults)]_vars

\* C11: when a result of an executed batch has success = false, a correction
\* round is started whose request lists every failed action of the batch with
\* its type, range and error text and lists no action that succeeded; the
\* request goes to the agent as it was built.
C11_RequestListsTheFailures ==
  [][\A k \in 1..MaxTurns :
       /\ (chains[k].pc = "exec" /\ chains'[k].pc # "exec" /\ ErrorCount(lastActionResults') > 0) =>
            LET rs == lastActionResults'
                req == chains'[k].request
            IN /\ chains'[k].pc = "recContext"
               /\ Len(req) = ErrorCount(rs)
               /\ \A i \in DOMAIN rs : ~rs[i].success =>
                    \E j \in DOMAIN req :
                      /\ req[j].type = rs[i].action.type
                      /\ req[j].range = rs[i].action.range
                      /\ Has(rs[i].error) /\ req[j].error = rs[i].error
               /\ \A j \in DOMAIN req : \E i \in DOMAIN rs :
                    ~rs[i].success /\ req[j].range = rs[i].action.range
                                  /\ req[j].type = rs[i].action.type
       /\ (chains[k].pc = "recContext" /\ chains'[k].pc # "recContext") =>
            /\ chains'[k].pc = "recAgent"
            /\ chains'[k].request = chains[k].request]_vars

C11_Witness ==
  \E k \in 1..MaxTurns :
    /\ chains[k].pc = "recAgent"
    /\ Len(lastActionResults) = 2
    /\ lastActionResults[1].success /\ ~lastActionResults[2].success
    /\ chains[k].request = <<[type |-> "formula", range |-> SingleCell(ColB, 2),
                               error |-> Some(HostErrorText)]>>

\* The agent's reply to chain k is a text-only one.
TextReplyArrives(k) == chains[k].pc = "agent" /\ chains'[k].outcome = "text"

\* What the parser gives for a text-only response.
TextOnlyResponse ==
  [threw |-> FALSE, strategy |-> 0, message |-> StrVal(PlainText), actions |-> None]

\* C15, as stated: a text-only response ends the turn without execution, and
\* the document and pendingActions are as they were before the turn.
C15_TextTurnLeavesPendingActions ==
  [][\A k \in 1..MaxTurns :
       TextReplyArrives(k)
         => /\ parseStructuredResponse(PlainText) = TextOnlyResponse
            /\ chains'[k].pc = "free"
            /\ sheet' = sheet
            /\ pendingActions' = chains[k].pendingAtStart]_vars

\* C15, amended: a text-only response is returned as the message without
\* actions and ends the turn without execution; the handling of the reply
\* leaves the document, the results of the last execution and pendingActions
\* as they were when the reply arrived.
C15_TextReplyEndsTurn ==
  [][\A k \in 1..MaxTurns :
       TextReplyArrives(k)
         => /\ parseStructuredResponse(PlainText) = TextOnlyResponse
            /\ chains'[k].pc = "free"
            /\ chains'[k].batch = <<>>
            /\ sheet' = sheet
            /\ lastActionResults' = lastActionResults
            /\ pendingActions' = pendingActions]_vars

\* A silent turn ended by a text-only reply, with the actions of an earlier
\* turn still pending.
C15_Witness ==
  \E k \in 1..MaxTurns :
    /\ chains[k].pc = "free" /\ chains[k].outcome = "text"
    /\ pendingActions # <<>>
    /\ ~isProcessing

\* ------------------------------------------------------------------------
\* Direct calls of the pure parts: a function is applied to an argument drawn
\* from a bounded set.
\* ------------------------------------------------------------------------
\* What excelService.readRange(action.range) gives for one formula action:
\* the non-empty cells of the range, or an ExcelServiceError.
ReadCells(cells) == [threw |-> FALSE, cells |-> cells]
ReadThrew == [threw |-> TRUE, cells |-> <<>>]

ReadPool ==
  {ReadThrew,
   ReadCells(<<Str(<<"#", "REF!">>)>>),
   ReadCells(<<Str(<<"total">>)>>),
   ReadCells(<<Str(<<"total", "#">>), Num(7)>>),
   ReadCells(<<Num(0), Str(<<"An ", "ERROR">>)>>),
   ReadCells(<<Str(<<"!inv", "VALOR!">>)>>),
   ReadCells(Repeat(Num(0), 9) \o <<Num(7), Num(7)>>),
   ReadCells(Repeat(Num(0), 1)),
   ReadCells(Repeat(Num(0), 5)),
   ReadCells(Repeat(Num(0), 6)),
   ReadCells(Repeat(Num(0), 10)),
   ReadCells(Repeat(Num(0), 9) \o <<Num(7)>>),
   ReadCells(Repeat(Num(0), 10) \o <<Num(7)>>),
   ReadCells(Repeat(Num(7), 6))}

VerifyInputs == UNION {[1..n -> ReadPool] : n \in 1..MaxFormulas}

\* Raw responses: text before, a body (a JSON object, a broken one, or
\* nothing), text after.
ProseBefore ==
  {Repeat("p", n) \o fence : n \in 0..MaxProse, fence \in {<<>>, <<"J">>, <<"F">>}}

ProseAfter ==
  {fence \o Repeat("p", n) : n \in 0..MaxProse, fence \in {<<>>, <<"F">>}}
    \cup {<<"p", "}">>}

ResponseBodies ==
  {<<>>,
   <<"{", "m", "}">>,
   <<"{", "e", "}">>,
   <<"{", "n", "}">>,
   <<"{", "m", ",", "a[", "]", "}">>,
   <<"{", "m", ",", "a[", "{", "w", "}", "]", "}">>,
   <<"{", "m", ",", "a[", "{", "c", "}", "]", "}">>,
   <<"{", "m", ",", "a[", "{", "w", "}", ",", "{", "c", "}", "]", "}">>,
   <<"{", "a[", "{", "w", "}", "]", ",", "m", "}">>,
   <<"{", "c", "}">>,
   <<"{", "w", "}">>,
   <<"{", "p", "c", "}">>,
   <<"{", "m", "p", "}">>,
   <<"{", "m">>,
   <<"{", "w">>,
   <<"{", "w", ",", "a[", "{", "w", "}", "]", "}">>,
   <<"{", "w", ",", "d}", "}">>,
   <<"{", "w", ",", "d{", "}">>}

RawResponses == ProseBefore \X ResponseBodies \X ProseAfter

Before(raw) == raw[1]
Body(raw) == raw[2]
After(raw) == raw[3]
Content(raw) == Before(raw) \o Body(raw) \o After(raw)

\* Inputs of validateWriteAction: an action, the range it was written to,
\* the worksheet at the time of the read, and whether the read fails.
Table(rows, cols) == [i \in 1..rows |-> [j \in 1..cols |-> "x"]]

WriteOf(rows, cols) ==
  ExcelAction("write", SingleCell(ColA, 1), None, Some(Table(rows, cols)), None, None, FALSE)

\* A worksheet whose region rows x cols at A1 has its first `empties` cells
\* (row by row) empty and the others filled.
PartlyFilled(rows, cols, empties) ==
  Filled({rc \in (1..rows) \X (1..cols) : (rc[1] - 1) * cols + rc[2] > empties})

WriteInputs ==
  {<<WriteOf(rows, cols), SingleCell(ColA, 1), PartlyFilled(rows, cols, empties)>> :
     rows \in 1..MaxRows, cols \in 1..MaxCols, empties \in 0..(MaxRows * MaxCols)}

\* What a cell of a formula region can show.
FormulaCellValues == RecognisedErrors \cup {"#SPILL!", "#N/A", "7", ""}

FormulaString == ExcelAction("formula", CellRange(ColB, 1, ColB, 2), None, None, Some(<<"=", "SPILL">>), None, FALSE)
FormulaMatrix == ExcelAction("formula", CellRange(ColB, 1, ColB, 2), None, None, None, Some(<<<<<<"=", "SPILL">>>>, <<<<"=", "SPILL">>>>>>), FALSE)
FormulaNone == ExcelAction("formula", CellRange(ColB, 1, ColB, 2), None, None, None, None, FALSE)
FormulaEmptyString == ExcelAction("formula", CellRange(ColB, 1, ColB, 2), None, None, Some(<<>>), None, FALSE)
FormulaNoRows == ExcelAction("formula", CellRange(ColB, 1, ColB, 2), None, None, None, Some(<<>>), FALSE)

\* B1 and B2 show v1 and v2.
Showing(v1, v2) ==
  LET shown == [rc \in {<<1, 2>>, <<2, 2>>} |-> IF rc[1] = 1 THEN v1 ELSE v2]
  IN [rc \in {c \in DOMAIN shown : shown[c] # ""} |-> shown[rc]]

FormulaInputs ==
  {<<action, action.range, Showing(v1, v2)>> :
     action \in {FormulaString, FormulaMatrix, FormulaNone, FormulaEmptyString, FormulaNoRows, WriteValue},
     v1 \in FormulaCellValues, v2 \in FormulaCellValues}

ValidationInputs == WriteInputs \cup FormulaInputs

FnInit ==
  /\ sheet = EmptySheet
  /\ actions = <<>>
  /\ idx = 1
  /\ pc = "off"
  /\ results = <<>>
  /\ cur = None
  /\ last = None
  /\ started = <<>>
  /\ editMode = "auto"
  /\ TurnIdle
  /\ FnIdle
  /\ calc = CalcIdle
  /\ BookIdle
  /\ ChatIdle

CallVerifyFormulaResults ==
  /\ called = "none"
  /\ \E reads \in VerifyInputs :
       /\ called' = "verifyFormulaResults"
       /\ argument' = reads
       /\ returned' = verifyFormulaResults(reads)
  /\ UNCHANGED <<execVars, turnVars, calcVars, bookVars, chatVars>>

\* return this.parseStructuredResponse(assistantMessage)
CallParseStructuredResponse ==
  /\ called = "none"
  /\ \E raw \in RawResponses :
       /\ called' = "parseStructuredResponse"
       /\ argument' = raw
       /\ returned' = parseStructuredResponse(Content(raw))
  /\ UNCHANGED <<execVars, turnVars, calcVars, bookVars, chatVars>>

\* await this.validateWriteAction(action, finalRange)
CallValidateWriteAction ==
  /\ called = "none"
  /\ \E input \in ValidationInputs, fails \in BOOLEAN :
       /\ called' = "validateWriteAction"
       /\ argument' = <<input[1], input[2], input[3], fails>>
       /\ returned' = IF fails THEN validateWriteActionCatch
                      ELSE validateWriteAction(input[1], input[2], input[3])
  /\ UNCHANGED <<execVars, turnVars, calcVars, bookVars, chatVars>>

\* ------------------------------------------------------------------------
\* Aggregation by category.  A cell is a number or a text; a text is a
\* sequence of characters.  A data row holds the cells of the category
\* column, the value column and the filter column.
\* ------------------------------------------------------------------------
TextCell(text) == [isNumber |-> FALSE, n |-> 0, text |-> text]
NumberCell(n) == [isNumber |-> TRUE, n |-> n, text |-> <<>>]
DataRow(category, value, filter) == [category |-> category, value |-> value, filter |-> filter]

\* String(v): the text of a cell
String(v) == IF v.isNumber THEN <<Digit(v.n)>> ELSE v.text

\* String(v || ""): 0 and "" are falsy
StringOrEmpty(v) == IF v.isNumber /\ v.n = 0 THEN <<>> ELSE String(v)

\* s.trim()
RECURSIVE TrimStart(_)
TrimStart(t) == IF t # <<>> /\ t[1] = " " THEN TrimStart(Tail(t)) ELSE t
RECURSIVE TrimEnd(_)
TrimEnd(t) ==
  IF t # <<>> /\ t[Len(t)] = " " THEN TrimEnd(SubSeq(t, 1, Len(t) - 1)) ELSE t
StringTrim(t) == TrimEnd(TrimStart(t))

\* s.toUpperCase()
UpperChar(c) == IF c = "a" THEN "A" ELSE IF c = "b" THEN "B" ELSE c
toUpperCase(t) == [i \in DOMAIN t |-> UpperChar(t[i])]

\* const category = String(categoryValues[i][0] || "").trim()
CategoryOf(row) == StringTrim(StringOrEmpty(row.category))

\* if (filterColumn && filterValue): the filter column is read and compared
FilterActive(filterColumn, filterValue) ==
  /\ Has(filterColumn) /\ filterColumn[1] # <<>>
  /\ Has(filterValue) /\ filterValue[1] # <<>>

\* filterVal === filterValue.toUpperCase()
PassesFilter(row, filterColumn, filterValue) ==
  FilterActive(filterColumn, filterValue) =>
    toUpperCase(StringTrim(StringOrEmpty(row.filter))) = toUpperCase(filterValue[1])

\* map.set(key, (map.get(key) || 0) + amount): a Map keeps its keys in the
\* order they were first set.
MapAdd(map, key, amount) ==
  IF \E j \in DOMAIN map : map[j].key = key
  THEN [j \in DOMAIN map |->
          IF map[j].key = key THEN [map[j] EXCEPT !.total = @ + amount] ELSE map[j]]
  ELSE Append(map, [key |-> key, total |-> amount])

MapGet(map, key) ==
  IF \E j \in DOMAIN map : map[j].key = key
  THEN (CHOOSE e \in {map[j] : j \in DOMAIN map} : e.key = key).total
  ELSE 0

\* The for loop of getUniqueCountsByCategory from row i on.
RECURSIVE CountByCategory(_, _, _, _, _)
CountByCategory(rows, i, filterColumn, filterValue, counts) ==
  IF i > Len(rows) THEN counts
  ELSE IF CategoryOf(rows[i]) = <<>> \/ ~PassesFilter(rows[i], filterColumn, filterValue)
       THEN CountByCategory(rows, i + 1, filterColumn, filterValue, counts)
       ELSE CountByCategory(rows, i + 1, filterColumn, filterValue,
                            MapAdd(counts, CategoryOf(rows[i]), 1))

\* typeof value !== "number" || isNaN(value)
IsNumeric(v) == v.isNumber

\* The for loop of getAverageByCategory from row i on: the sums.
RECURSIVE SumByCategory(_, _, _, _, _)
SumByCategory(rows, i, filterColumn, filterValue, sums) ==
  IF i > Len(rows) THEN sums
  ELSE IF \/ CategoryOf(rows[i]) = <<>>
          \/ ~IsNumeric(rows[i].value)
          \/ ~PassesFilter(rows[i], filterColumn, filterValue)
       THEN SumByCategory(rows, i + 1, filterColumn, filterValue, sums)
       ELSE SumByCategory(rows, i + 1, filterColumn, filterValue,
                          MapAdd(sums, CategoryOf(rows[i]), rows[i].value.n))

\* The same loop: the counts.
RECURSIVE CountNumericByCategory(_, _, _, _, _)
CountNumericByCategory(rows, i, filterColumn, filterValue, counts) ==
  IF i > Len(rows) THEN counts
  ELSE IF \/ CategoryOf(rows[i]) = <<>>
          \/ ~IsNumeric(rows[i].value)
          \/ ~PassesFilter(rows[i], filterColumn, filterValue)
       THEN CountNumericByCategory(rows, i + 1, filterColumn, filterValue, counts)
       ELSE CountNumericByCategory(rows, i + 1, filterColumn, filterValue,
                                   MapAdd(counts, CategoryOf(rows[i]), 1))

\* Math.round((sum / count) * 100) / 100, in hundredths; Math.round rounds a
\* half up.
RoundedAverage(sum, count) == (200 * sum + count) \div (2 * count)

\* .sort((a, b) => b.field - a.field): Array.prototype.sort is stable, an
\* entry goes behind the entries that are not smaller.
RECURSIVE InsertDescending(_, _, _)
InsertDescending(sorted, entry, field) ==
  IF sorted = <<>> THEN <<entry>>
  ELSE IF Head(sorted)[field] >= entry[field]
       THEN <<Head(sorted)>> \o InsertDescending(Tail(sorted), entry, field)
       ELSE <<entry>> \o sorted

RECURSIVE SortDescending(_, _, _)
SortDescending(entries, field, sorted) ==
  IF entries = <<>> THEN sorted
  ELSE SortDescending(Tail(entries), field, InsertDescending(sorted, Head(entries), field))

\* Array.from(counts.entries()).map(([category, count]) => ({ category, count }))
CountEntries(counts) ==
  [j \in DOMAIN counts |-> [category |-> counts[j].key, count |-> counts[j].total]]

\* Array.from(sums.entries()).map(([category, sum]) => ({ category, average, count }))
AverageEntries(sums, counts) ==
  [j \in DOMAIN sums |->
     [category |-> sums[j].key,
      average |-> RoundedAverage(sums[j].total,
                                 IF MapGet(counts, sums[j].key) = 0 THEN 1
                                 ELSE MapGet(counts, sums[j].key)),
      count |-> MapGet(counts, sums[j].key)]]

\* getUniqueCountsByCategory: the body of the Excel.run batch, given the data
\* rows read from row 2 down.
getUniqueCountsByCategory(rows, filterColumn, filterValue) ==
  SortDescending(CountEntries(CountByCategory(rows, 1, filterColumn, filterValue, <<>>)),
                 "count", <<>>)

\* getAverageByCategory: the body of the Excel.run batch.
getAverageByCategory(rows, filterColumn, filterValue) ==
  SortDescending(
    AverageEntries(SumByCategory(rows, 1, filterColumn, filterValue, <<>>),
                   CountNumericByCategory(rows, 1, filterColumn, filterValue, <<>>)),
    "average", <<>>)

\* Data rows of the sheets the two functions are applied to.
CategoryCells ==
  {TextCell(<<>>), TextCell(<<"N">>), TextCell(<<" ", "N", " ">>), TextCell(<<"S">>),
   NumberCell(0)}
FilterCells == {TextCell(<<"a", " ">>), TextCell(<<"b">>)}
ValueCells == {NumberCell(1), NumberCell(4), TextCell(<<"x">>)}
CountRowPool == {DataRow(c, NumberCell(1), f) : c \in CategoryCells, f \in FilterCells}
AverageRowPool ==
  {DataRow(c, v, f) : c \in {TextCell(<<"N">>), TextCell(<<"S">>)}, v \in ValueCells,
                      f \in FilterCells}
CountTables == UNION {[1..n -> CountRowPool] : n \in 0..MaxData}
AverageTables == UNION {[1..n -> AverageRowPool] : n \in 0..MaxData}
FilterArguments == {<<None, None>>, <<Some(<<"AI">>), Some(<<"A">>)>>}

\* await excelService.getUniqueCountsByCategory(categoryColumn, filterColumn, filterValue)
CallGetUniqueCountsByCategory ==
  /\ called = "none"
  /\ \E rows \in CountTables, filter \in FilterArguments :
       /\ called' = "getUniqueCountsByCategory"
       /\ argument' = <<rows, filter[1], filter[2]>>
       /\ returned' = getUniqueCountsByCategory(rows, filter[1], filter[2])
  /\ UNCHANGED <<execVars, turnVars, calcVars, bookVars, chatVars>>

\* await excelService.getAverageByCategory(categoryColumn, valueColumn, filterColumn, filterValue)
CallGetAverageByCategory ==
  /\ called = "none"
  /\ \E rows \in AverageTables, filter \in FilterArguments :
       /\ called' = "getAverageByCategory"
       /\ argument' = <<rows, filter[1], filter[2]>>
       /\ returned' = getAverageByCategory(rows, filter[1], filter[2])
  /\ UNCHANGED <<execVars, turnVars, calcVars, bookVars, chatVars>>

FnNext ==
  \/ CallVerifyFormulaResults
  \/ CallParseStructuredResponse
  \/ CallValidateWriteAction
  \/ CallGetUniqueCountsByCategory
  \/ CallGetAverageByCategory

FnSpec == FnInit /\ [][FnNext]_vars

\* All numeric results the formula actions of the batch yielded.
RECURSIVE NumericResults(_)
NumericResults(reads) ==
  IF reads = <<>> THEN <<>>
  ELSE SelectSeq(Head(reads).cells, IsNumber) \o NumericResults(Tail(reads))

\* C12: if the formula actions of a batch yield at least 10 numeric results
\* that are all exactly zero, the batch is classified as suspicious
\* (needsCorrection), which is what triggers its correction round.
C12_TenZerosAreSuspicious ==
  called = "verifyFormulaResults" =>
    LET numeric == NumericResults(argument)
    IN (Len(numeric) >= 10 /\ \A i \in DOMAIN numeric : numeric[i].n = 0)
         => returned.needsCorrection

\* The strings and the numbers among the cells read for one action.
StringsOf(cells) == {cells[i].s : i \in {k \in DOMAIN cells : ~cells[k].isNumber}}
NumbersAt(cells) == {i \in DOMAIN cells : cells[i].isNumber}
ZerosAt(cells) == {i \in NumbersAt(cells) : cells[i].n = 0}

\* The three conditions of the suspicion check, on the cells read.
HasErrorString(cells) ==
  \E str \in StringsOf(cells) :
    \/ (str # <<>> /\ Head(str) = "#")
    \/ "ERROR" \in {str[i] : i \in DOMAIN str}
    \/ "!inv" \in {str[i] : i \in DOMAIN str}
AllZero(cells) ==
  Cardinality(NumbersAt(cells)) > 5 /\ ZerosAt(cells) = NumbersAt(cells)
MostlyZero(cells) ==
  /\ Cardinality(NumbersAt(cells)) > 10
  /\ 100 * Cardinality(ZerosAt(cells)) > 90 * Cardinality(NumbersAt(cells))
Suspicious(cells) == HasErrorString(cells) \/ AllZero(cells) \/ MostlyZero(cells)

\* The actions whose range was read and is suspicious.
FlaggedReads(reads) ==
  {i \in DOMAIN reads : ~reads[i].threw /\ Suspicious(reads[i].cells)}

\* C33: verifyFormulaResults flags an action exactly when the cells read
\* from its range hold a string that starts with "#" or contains "ERROR" or
\* the inverted exclamation mark, or more than 5 numbers that are all zero,
\* or more than 10 numbers of which more than 90% are zero; with at most 5
\* numbers and no such string it is never flagged; needsCorrection is true
\* iff at least one action is flagged.
C33_FlaggedExactlyWhenSuspicious ==
  called = "verifyFormulaResults" =>
    /\ returned.anomalies = Cardinality(FlaggedReads(argument))
    /\ returned.needsCorrection <=> FlaggedReads(argument) # {}
    /\ \A i \in DOMAIN argument :
         (Cardinality(NumbersAt(argument[i].cells)) <= 5
            /\ ~HasErrorString(argument[i].cells)) => i \notin FlaggedReads(argument)

\* Two actions were checked: one with eleven numbers of which ten are zero,
\* which is flagged, and one with eleven numbers of which nine are zero,
\* which is not.
C33_Witness ==
  /\ called = "verifyFormulaResults"
  /\ Len(argument) = 2
  /\ argument[1] = ReadCells(Repeat(Num(0), 10) \o <<Num(7)>>)
  /\ argument[2] = ReadCells(Repeat(Num(0), 9) \o <<Num(7), Num(7)>>)
  /\ returned.anomalies = 1
  /\ returned.needsCorrection

\* C13: parseStructuredResponse never throws; a strategy that fails falls
\* through; when no strategy extracts anything the result is the raw text as
\* message with actions undefined; the message is always a string.
C13_ParserNeverThrows ==
  called = "parseStructuredResponse" =>
    LET content == Content(argument)
    IN /\ ~returned.threw
       /\ returned.message.isString
       /\ (/\ ~JsonBlock(content).found /\ ~CodeBlock(content).found
           /\ ~CalcAction(content).found /\ ~DirectJson(content).found
           /\ ~DirectAction(content).found /\ ~WholeJson(content).found)
            => returned.message = StrVal(content) /\ returned.actions = None

C13_Witness ==
  /\ called = "parseStructuredResponse"
  /\ argument = <<<<"J">>, <<"{", "m", "p", "}">>, <<"F">>>>
  /\ ~JsonParse(Body(argument)).ok
  /\ ~returned.threw
  /\ returned.message = StrVal(Content(argument))
  /\ returned.actions = None

\* The text without braces: prose and code fences.
BraceFree(t) == \A i \in DOMAIN t : ~IsBrace(t[i])

\* JSON.stringify of a response whose message is "hi".
RECURSIVE StringifyActions(_)
StringifyActions(acts) ==
  IF acts = <<>> THEN <<>>
  ELSE <<"{", IF acts[1].type = Some("calc") THEN "c" ELSE "w", "}">>
         \o (IF Len(acts) > 1 THEN <<",">> ELSE <<>>)
         \o StringifyActions(Tail(acts))

Stringify(response) ==
  <<"{", "m">>
    \o (IF Has(response.actions)
        THEN <<",", "a[">> \o StringifyActions(response.actions[1]) \o <<"]">>
        ELSE <<>>)
    \o <<"}">>

\* C14: for a raw response that holds a JSON object with a (non-empty) string message,
\* with or without actions and with any prose before or after it, the parser
\* returns that object's message and actions; and parsing the stringified
\* output of the parser gives the same message and actions again.
C14_ObjectReturnedVerbatim ==
  called = "parseStructuredResponse" =>
    LET object == JsonParse(Body(argument))
    IN (/\ object.ok /\ Has(object.value.message) /\ object.value.message[1].isString
        /\ object.value.message[1].text # <<>>
        /\ BraceFree(Before(argument)) /\ BraceFree(After(argument))) =>
          /\ returned.message = object.value.message[1]
          /\ returned.actions = object.value.actions
          /\ returned.message = StrVal(<<"hi">>) =>
               LET again == parseStructuredResponse(Stringify(returned))
               IN again.message = returned.message /\ again.actions = returned.actions

\* ------------------------------------------------------------------------
\* Post-write validation
\* ------------------------------------------------------------------------
\* The call of validateWriteAction that was made, and what it read back.
Validated == called = "validateWriteAction" /\ ~argument[4]
ValidatedAction == argument[1]
ReadBack == ActualValues(argument[1], argument[2], argument[3])

\* The payload the claim speaks of: a non-empty values matrix of a write, a
\* formula string or a non-empty formulas matrix of a formula action.
NonEmptyPayload(action) ==
  IF action.type = "write"
  THEN Has(action.values) /\ action.values[1] # <<>>
  ELSE (Has(action.formula) /\ action.formula[1] # <<>>)
         \/ (Has(action.formulas) /\ action.formulas[1] # <<>>)

FailedForEmptiness == ~returned.passed /\ returned.rule = "noData"

\* The objects JSON.parse gives for the stretches of the content.
ParsedObjects(content) ==
  {JsonParse(SubSeq(content, i, j)).value :
     <<i, j>> \in {ij \in (1..Len(content)) \X (1..Len(content)) :
                    JsonParse(SubSeq(content, ij[1], ij[2])).ok}}

\* message is the string message member of an object parsed from the content.
IsMessageField(message, content) ==
  /\ message.isString
  /\ \E object \in ParsedObjects(content) :
       Has(object.message) /\ object.message[1] = message

\* message is the text before an object parsed from the content, or the
\* placeholder when there is no text before it.
IsTextBeforeObject(message, content, placeholder) ==
  \E i \in 1..Len(content) : \E j \in i..Len(content) :
    /\ JsonParse(SubSeq(content, i, j)).ok
    /\ message = StrVal(IF i = 1 THEN <<placeholder>> ELSE SubSeq(content, 1, i - 1))

\* C28 as stated: every strategy accepts a candidate only when the parsed
\* value has a string message, so the message of the returned envelope is
\* the message member of a parsed object or the whole raw text.
C28_MessageIsFieldOrRawText ==
  called = "parseStructuredResponse" =>
    \/ IsMessageField(returned.message, Content(argument))
    \/ returned.message = StrVal(Content(argument))

\* C28 as amended: strategies 1, 2, 4 and 6 accept a candidate only when the
\* parsed value has a string message and return that message; strategies 3
\* and 5 accept any candidate that parses and return the text before it, or
\* their placeholder when no text precedes it; when every candidate is
\* rejected the message is the whole raw text.
C28_MessageIsFieldTextBeforeOrRawText ==
  called = "parseStructuredResponse" =>
    /\ returned.strategy \in {1, 2, 4, 6}
         => IsMessageField(returned.message, Content(argument))
    /\ returned.strategy = 3
         => IsTextBeforeObject(returned.message, Content(argument), "Procesando calculo...")
    /\ returned.strategy = 5
         => IsTextBeforeObject(returned.message, Content(argument), "Procesando...")
    /\ returned.strategy = 0 => returned.message = StrVal(Content(argument))

\* An inline calc action after prose: the prose is returned as the message.
C28_Witness ==
  /\ called = "parseStructuredResponse"
  /\ argument = <<<<"p">>, <<"{", "c", "}">>, <<>>>>
  /\ returned.strategy = 3
  /\ returned.message = StrVal(<<"p">>)
  /\ ~IsMessageField(returned.message, Content(argument))

\* What strategy i alone gives for the content.
StrategyResult(content, i) ==
  CASE i = 1 -> JsonBlock(content)
    [] i = 2 -> CodeBlock(content)
    [] i = 3 -> CalcAction(content)
    [] i = 4 -> DirectJson(content)
    [] i = 5 -> DirectAction(content)
    [] i = 6 -> WholeJson(content)

\* Strategy i succeeds and none before it does.
FirstSuccessAt(content, i) ==
  /\ StrategyResult(content, i).found
  /\ \A k \in 1..(i - 1) : ~StrategyResult(content, k).found

\* C30: the strategies are tried in the order json-tagged fenced block, fenced
\* block starting with "{", inline calc action, inline object with message
\* and actions, inline bare action, whole trimmed response; the result is
\* that of the first strategy that succeeds, whatever the later ones give.
C30_FirstSuccessWins ==
  called = "parseStructuredResponse" =>
    \A i \in 1..6 :
      FirstSuccessAt(Content(argument), i) =>
        /\ returned.strategy = i
        /\ returned.message = StrategyResult(Content(argument), i).message
        /\ returned.actions = StrategyResult(Content(argument), i).actions

\* The inline calc action (3) and the inline object with message and
\* actions (4) both succeed, with different results: the result is that of 3.
C30_Witness ==
  /\ called = "parseStructuredResponse"
  /\ FirstSuccessAt(Content(argument), 3)
  /\ DirectJson(Content(argument)).found
  /\ DirectJson(Content(argument)).message # CalcAction(Content(argument)).message
  /\ returned.strategy = 3
  /\ returned.message = CalcAction(Content(argument)).message

\* The raw response is one action object, beginning with its type, with
\* prose (and fences) around it.
BareAction ==
  /\ called = "parseStructuredResponse"
  /\ Len(Body(argument)) > 1
  /\ Body(argument)[1] = "{" /\ Body(argument)[2] \in {"c", "w"}
  /\ JsonParse(Body(argument)).ok
  /\ BraceFree(Before(argument)) /\ BraceFree(After(argument))

\* C32: for a bare single action embedded in prose the parser finds the brace
\* that closes the action object, whatever braces are nested in the payload
\* or stand inside its string values, and the envelope returned holds
\* exactly that action.
C32_BareActionExtractedWhole ==
  BareAction => returned.actions = Some(<<JsonParse(Body(argument)).value>>)

\* C16: validateWriteAction reports the emptiness failure only for an action
\* with a non-empty expected payload; an action with an empty payload is
\* never failed for emptiness, whatever the region holds.
C16_EmptinessNeedsPayload ==
  called = "validateWriteAction" =>
    (FailedForEmptiness => NonEmptyPayload(ValidatedAction))

\* A formula action with a payload whose region reads back entirely empty.
C16_Witness ==
  /\ Validated
  /\ ValidatedAction = FormulaMatrix
  /\ CountNonEmpty(ReadBack) = 0 /\ CountCells(ReadBack) = 2
  /\ FailedForEmptiness

\* The sentinel of an array formula that cannot spill.
OverflowSentinel == "#SPILL!"

ErrorSentinels == {"#REF!", "#VALUE!", "#NAME?", "#DIV/0!", OverflowSentinel}

AllCells(matrix, values) ==
  /\ CountCells(matrix) > 0
  /\ \A i \in DOMAIN matrix : \A j \in DOMAIN matrix[i] : matrix[i][j] \in values

\* C17: a formula action whose re-read region holds an error sentinel in
\* every cell, the overflow sentinel included, is classified as failed.
C17_AllErrorsFail ==
  (Validated /\ ValidatedAction.type = "formula" /\ AllCells(ReadBack, ErrorSentinels))
    => ~returned.passed

\* More than 30% of the cells are empty, and more than 3 cells.
OverThresholds(matrix) ==
  LET totalCells == CountCells(matrix)
      emptyCount == totalCells - CountNonEmpty(matrix)
  IN 100 * emptyCount > 30 * totalCells /\ emptyCount > 3

FailedAsIncomplete == ~returned.passed /\ returned.rule = "incomplete"

\* C18, as stated: a write of more than one row fails as an incomplete table
\* exactly when more than 30% and more than 3 of the re-read cells are
\* empty; a single-row write never does.
C18_IncompleteExactlyOverThresholds ==
  (Validated /\ ValidatedAction.type = "write") =>
    IF ArrLen(ValidatedAction.values) > 1
    THEN FailedAsIncomplete <=> OverThresholds(ReadBack)
    ELSE ~FailedAsIncomplete

\* C18, amended: a write of more than one row fails as an incomplete table
\* exactly when more than 30% and more than 3 of the re-read cells are empty
\* and at least one cell holds data (an entirely empty region has already
\* failed as "no data written"); apart from that no-data case the action
\* passes; a single-row write never fails as an incomplete table.
C18_IncompleteOverThresholdsWithData ==
  (Validated /\ ValidatedAction.type = "write") =>
    IF ArrLen(ValidatedAction.values) > 1
    THEN /\ FailedAsIncomplete <=> (OverThresholds(ReadBack) /\ CountNonEmpty(ReadBack) > 0)
         /\ returned.passed <=> (~OverThresholds(ReadBack) /\ CountNonEmpty(ReadBack) > 0)
    ELSE ~FailedAsIncomplete

\* Exactly 30% empty with more than 3 empty cells: 6 of the 20 cells of a
\* table of 10 rows; the write passes.
C18_Witness ==
  /\ Validated
  /\ ValidatedAction = WriteOf(10, 2)
  /\ CountCells(ReadBack) = 20 /\ CountNonEmpty(ReadBack) = 14
  /\ returned.passed

\* ------------------------------------------------------------------------
\* sendMessage: a reply with calc actions.  The formulas of every calc action
\* are evaluated on the hidden sheet; when Excel errors are found the agent
\* is asked for corrected formulas, which are evaluated again.
\*
\* calc.awaited: the Excel.run batch of the call the chain is awaiting is in
\* flight; calc.abandoned: the batches of calls whose race was lost to the
\* timeout, still in flight; calc.timer: the timeout raced against the
\* awaited call is armed.
\* ------------------------------------------------------------------------
CalcWith == [type |-> "calc", calcFormulas |-> <<"COUNTIF">>]
CalcWithout == [type |-> "calc", calcFormulas |-> <<>>]

CalcBatches == UNION {[1..n -> {CalcWith, CalcWithout}] : n \in 1..MaxCalc}

\* formulas && formulas.length > 0
HasFormulas(calcAction) == Len(calcAction.calcFormulas) > 0

\* The entries of calcResults and retryResults.
Executed == "[CALCULOS EJECUTADOS]"
FormulaErrors == "[ERRORES EN FORMULAS - NECESITA CORRECCION]"
NoFormulas == "[ERROR: Accion calc sin formulas definidas]"
CalcError == "[ERROR en calculo]"
Corrected == "[CALCULOS CORREGIDOS]"
StillErrors == "[CALCULOS CON ERRORES]"
RetryError == "[ERROR en reintento]"

\* r.includes("ERROR")
IncludesError(r) == r \notin {Executed, Corrected}

\* calcResults.some(r => r.includes("ERRORES EN FORMULAS") || r.includes("#SPILL!"))
HasExcelErrors(calcResults) == \E i \in DOMAIN calcResults : calcResults[i] = FormulaErrors

TimeoutText == "Timeout: el calculo tardo mas de 30 segundos"
CalcFailedText == "Error ejecutando formulas en hoja oculta"

CalcActionResult(success, error) == [success |-> success, error |-> error]

\* What executeCalcFormulas can do once the host has run its batch.
CalcOutcomes == {"values", "errorValues", "threw"}

Pushed(c, entry, result) ==
  [c EXCEPT !.calcResults = Append(@, entry), !.calcActionResults = Append(@, result),
            !.i = @ + 1]

\* for (const calcAction of calcActions) {...} from action c.i on, up to the
\* next await: the race of executeCalcFormulas against the timeout, or
\* clearCalcSheet after the loop.
RECURSIVE NextCalc(_)
NextCalc(c) ==
  IF c.i > Len(c.calcActions)
  THEN [c EXCEPT !.pc = "clear", !.awaited = TRUE]
  ELSE IF HasFormulas(c.calcActions[c.i])
  THEN [c EXCEPT !.pc = "first", !.timer = TRUE, !.awaited = TRUE]
  ELSE NextCalc(Pushed(c, NoFormulas, CalcActionResult(FALSE, "No se definieron formulas para calcular")))

\* for (const retryAction of retryCalcActions) {...} from action c.i on, up
\* to the next await: executeCalcFormulas, or clearCalcSheet after the loop.
RECURSIVE NextRetry(_)
NextRetry(c) ==
  IF c.i > Len(c.retryCalcActions)
  THEN [c EXCEPT !.pc = "retryClear", !.awaited = TRUE]
  ELSE IF HasFormulas(c.retryCalcActions[c.i])
  THEN [c EXCEPT !.pc = "retry", !.awaited = TRUE]
  ELSE NextRetry([c EXCEPT !.i = @ + 1])

\* if (calcResults.length === 0 || calcResults.every(r => r.includes("ERROR"))) return;
\* otherwise the follow-up request is sent.
AfterCalc(c) ==
  IF c.calcResults = <<>> \/ \A i \in DOMAIN c.calcResults : IncludesError(c.calcResults[i])
  THEN [c EXCEPT !.pc = "done"]
  ELSE [c EXCEPT !.pc = "followUp"]

\* What the agent can answer to the retry request.
RetryReplies ==
  {[threw |-> TRUE, kind |-> "none", actions |-> <<>>],
   [threw |-> FALSE, kind |-> "none", actions |-> <<>>],
   [threw |-> FALSE, kind |-> "pivotTable", actions |-> <<>>]}
    \cup {[threw |-> FALSE, kind |-> "calc", actions |-> b] : b \in CalcBatches}

CalcInit ==
  /\ sheet = EmptySheet
  /\ actions = <<>>
  /\ idx = 1
  /\ pc = "off"
  /\ results = <<>>
  /\ cur = None
  /\ last = None
  /\ started = <<>>
  /\ editMode = "auto"
  /\ TurnIdle
  /\ FnIdle
  /\ calc = [CalcIdle EXCEPT !.pc = "agent"]
  /\ BookIdle
  /\ ChatIdle

\* The agent's reply carries calc actions: sendMessage up to
\* await excelService.buildLightweightIndex().
CalcReplyArrives ==
  /\ calc.pc = "agent"
  /\ \E batch \in CalcBatches :
       calc' = [calc EXCEPT !.pc = "index", !.calcActions = batch, !.awaited = TRUE]
  /\ UNCHANGED <<execVars, turnVars, fnVars, bookVars, chatVars>>

\* buildLightweightIndex resolves; the loop over the calc actions begins.
IndexBuilt ==
  /\ calc.pc = "index"
  /\ calc' = NextCalc([calc EXCEPT !.awaited = FALSE, !.i = 1])
  /\ UNCHANGED <<execVars, turnVars, fnVars, bookVars, chatVars>>

\* executeCalcFormulas settles before the timeout: Promise.race settles with it.
CalcResolved ==
  /\ calc.pc = "first"
  /\ \E outcome \in CalcOutcomes :
       LET settled == [calc EXCEPT !.awaited = FALSE, !.timer = FALSE]
       IN calc' = NextCalc(
            IF outcome = "values"
            THEN Pushed(settled, Executed, CalcActionResult(TRUE, ""))
            ELSE IF outcome = "errorValues"
            THEN Pushed(settled, FormulaErrors, CalcActionResult(FALSE, "Errores de Excel"))
            ELSE Pushed(settled, CalcError, CalcActionResult(FALSE, CalcFailedText)))
  /\ UNCHANGED <<execVars, turnVars, fnVars, bookVars, chatVars>>

\* The timeout fires first: Promise.race rejects, the catch block records the
\* failure and the loop goes on; the call of executeCalcFormulas is left
\* running.
CalcTimedOut ==
  /\ calc.pc = "first" /\ calc.timer
  /\ LET left == [calc EXCEPT !.awaited = FALSE, !.timer = FALSE, !.abandoned = @ + 1]
     IN calc' = NextCalc(Pushed(left, CalcError, CalcActionResult(FALSE, TimeoutText)))
  /\ UNCHANGED <<execVars, turnVars, fnVars, bookVars, chatVars>>

\* The host finishes the batch of a call that lost its race; nobody awaits it.
AbandonedCompletes ==
  /\ calc.abandoned > 0
  /\ calc' = [calc EXCEPT !.abandoned = @ - 1]
  /\ UNCHANGED <<execVars, turnVars, fnVars, bookVars, chatVars>>

\* clearCalcSheet resolves after the first attempt.
CalcSheetCleared ==
  /\ calc.pc = "clear"
  /\ LET cleared == [calc EXCEPT !.awaited = FALSE]
     IN calc' = IF HasExcelErrors(calc.calcResults)
                THEN [cleared EXCEPT !.pc = "retryAgent"]
                ELSE AfterCalc(cleared)
  /\ UNCHANGED <<execVars, turnVars, fnVars, bookVars, chatVars>>

\* The agent's reply to the retry request arrives.
RetryReplied ==
  /\ calc.pc = "retryAgent"
  /\ \E reply \in RetryReplies :
       calc' = IF reply.threw \/ reply.kind = "pivotTable" THEN [calc EXCEPT !.pc = "done"]
               ELSE IF reply.kind = "calc"
               THEN NextRetry([calc EXCEPT !.retryCalcActions = reply.actions, !.i = 1])
               ELSE AfterCalc(calc)
  /\ UNCHANGED <<execVars, turnVars, fnVars, bookVars, chatVars>>

\* await excelService.executeCalcFormulas(formulas, sheetName) of the retry settles.
RetryResolved ==
  /\ calc.pc = "retry"
  /\ \E outcome \in CalcOutcomes :
       LET entry == IF outcome = "values" THEN Corrected
                    ELSE IF outcome = "errorValues" THEN StillErrors ELSE RetryError
           result == IF outcome = "values" THEN CalcActionResult(TRUE, "")
                     ELSE IF outcome = "errorValues"
                     THEN CalcActionResult(FALSE, "Las formulas corregidas tambien fallaron")
                     ELSE CalcActionResult(FALSE, CalcFailedText)
       IN calc' = NextRetry([calc EXCEPT !.awaited = FALSE, !.i = @ + 1,
                                         !.retryResults = Append(@, entry),
                                         !.retryActionResults = Append(@, result)])
  /\ UNCHANGED <<execVars, turnVars, fnVars, bookVars, chatVars>>

\* clearCalcSheet resolves after the retry; the retry's results replace the others.
RetrySheetCleared ==
  /\ calc.pc = "retryClear"
  /\ calc' = AfterCalc([calc EXCEPT !.awaited = FALSE, !.calcResults = calc.retryResults])
  /\ UNCHANGED <<execVars, turnVars, fnVars, bookVars, chatVars>>

\* The agent's reply to the follow-up request arrives (or the request fails).
FollowUpReplied ==
  /\ calc.pc = "followUp"
  /\ calc' = [calc EXCEPT !.pc = "done"]
  /\ UNCHANGED <<execVars, turnVars, fnVars, bookVars, chatVars>>

CalcNext ==
  \/ CalcReplyArrives
  \/ IndexBuilt
  \/ CalcResolved
  \/ CalcTimedOut
  \/ AbandonedCompletes
  \/ CalcSheetCleared
  \/ RetryReplied
  \/ RetryResolved
  \/ RetrySheetCleared
  \/ FollowUpReplied

CalcSpec == CalcInit /\ [][CalcNext]_vars

\* Excel.run batches issued and not yet completed.
InFlight == (IF calc.awaited THEN 1 ELSE 0) + calc.abandoned

\* C19: at every point at most one Excel.run batch issued by the engine is
\* pending, also after a calc timeout has fired.
C19_OneBatchInFlight == InFlight <= 1

\* An evaluation of calc formulas is being awaited.
AwaitsCalc == calc.pc \in {"first", "retry"}

\* C20: every evaluation of calc formulas, of the first attempt and of the
\* retry alike, runs against the timeout; and when the timeout fires the calc
\* action gets a failed result and the loop goes on.
C20_CalcBoundedByTimeout ==
  [][/\ AwaitsCalc' => calc'.timer
     /\ (calc.timer /\ calc'.abandoned > calc.abandoned)
          => /\ Len(calc'.calcActionResults) > Len(calc.calcActionResults)
             /\ ~calc'.calcActionResults[calc.i].success
             /\ calc'.i > calc.i]_vars

\* ------------------------------------------------------------------------
\* The column indexes and their caches
\* ------------------------------------------------------------------------
\* Contents a user's worksheet may hold. TableA and TableB have the same
\* dimensions and different headers and data.
TableA == <<<<"a">>, <<"x">>>>
TableB == <<<<"b">>, <<"y">>>>
TableWide == <<<<"a", "b">>, <<"x", "y">>, <<"x", "z">>>>
SheetContents == {BlankSheet, TableA, TableB, TableWide}

\* usedRange.rowCount, usedRange.columnCount, usedRange.isNullObject
RowCount(ws) == Len(ws)
ColumnCount(ws) == IF ws = <<>> THEN 0 ELSE Len(ws[1])
IsNullObject(ws) == ws = <<>>

\* `${sheet.name}_${totalRows}_${totalCols}`
DataCacheKey(name, ws) ==
  name \o <<"_", Digit(RowCount(ws)), "_", Digit(ColumnCount(ws))>>

\* `${sheet.name}_${totalRows}_${totalCols}_lightweight`
LightweightCacheKey(name, ws) ==
  name \o <<"_", Digit(RowCount(ws)), "_", Digit(ColumnCount(ws)), "_", "lightweight">>

\* The index built from row 1 of the sheet.
LightweightIndex(name, ws) ==
  [sheetName |-> name, totalRows |-> RowCount(ws), totalColumns |-> ColumnCount(ws),
   columns |-> ws[1]]

\* The index built from the headers and the values of every column.
DataIndex(name, ws) ==
  [sheetName |-> name, totalRows |-> RowCount(ws), totalColumns |-> ColumnCount(ws),
   columns |-> [c \in 1..ColumnCount(ws) |->
                  [header |-> ws[1][c],
                   uniqueValues |-> {ws[r][c] : r \in 2..RowCount(ws)}]]]

\* The test in front of the rebuild, with the key compared left out.
UseCacheWhateverKey(forceRebuild, cache, cachedKey, cacheKey) ==
  ~forceRebuild /\ Has(cache)

\* if (!forceRebuild && this.cache && this.cacheKey === cacheKey)
UseCache(forceRebuild, cache, cachedKey, cacheKey) ==
  ~forceRebuild /\ Has(cache) /\ cachedKey = cacheKey

\* What a call of either builder hands back: the index or null, and whether
\* the header row was read for it.
IndexResult(index, rebuilt) == [index |-> index, rebuilt |-> rebuilt]

BookInit ==
  /\ sheet = EmptySheet
  /\ actions = <<>>
  /\ idx = 1
  /\ pc = "off"
  /\ results = <<>>
  /\ cur = None
  /\ last = None
  /\ started = <<>>
  /\ editMode = "auto"
  /\ TurnIdle
  /\ FnIdle
  /\ calc = CalcIdle
  /\ BookIdle
  /\ ChatIdle

\* buildLightweightIndex(forceRebuild); `throws`: a context.sync() of the
\* batch rejects, which the catch turns into null.
buildLightweightIndex(forceRebuild, throws) ==
  /\ called' = "buildLightweightIndex"
  /\ argument' = <<forceRebuild, throws, lightweightIndexCache, lightweightIndexCacheKey>>
  /\ IF throws \/ IsNullObject(workbook[activeSheet])
       THEN /\ returned' = IndexResult(None, FALSE)
            /\ UNCHANGED <<lightweightIndexCache, lightweightIndexCacheKey>>
       ELSE IF UseCache(forceRebuild, lightweightIndexCache, lightweightIndexCacheKey,
                        LightweightCacheKey(activeSheet, workbook[activeSheet]))
         THEN /\ returned' = IndexResult(lightweightIndexCache, FALSE)
              /\ UNCHANGED <<lightweightIndexCache, lightweightIndexCacheKey>>
         ELSE /\ returned' =
                   IndexResult(Some(LightweightIndex(activeSheet, workbook[activeSheet])), TRUE)
              /\ lightweightIndexCache' =
                   Some(LightweightIndex(activeSheet, workbook[activeSheet]))
              /\ lightweightIndexCacheKey' =
                   LightweightCacheKey(activeSheet, workbook[activeSheet])
  /\ UNCHANGED <<workbook, activeSheet, dataIndexCache, dataIndexCacheKey>>
  /\ UNCHANGED <<execVars, turnVars, calcVars, chatVars>>

\* buildDataIndex(forceRebuild)
buildDataIndex(forceRebuild, throws) ==
  /\ called' = "buildDataIndex"
  /\ argument' = <<forceRebuild, throws, dataIndexCache, dataIndexCacheKey>>
  /\ IF throws \/ IsNullObject(workbook[activeSheet])
       THEN /\ returned' = IndexResult(None, FALSE)
            /\ UNCHANGED <<dataIndexCache, dataIndexCacheKey>>
       ELSE IF UseCache(forceRebuild, dataIndexCache, dataIndexCacheKey,
                        DataCacheKey(activeSheet, workbook[activeSheet]))
         THEN /\ returned' = IndexResult(dataIndexCache, FALSE)
              /\ UNCHANGED <<dataIndexCache, dataIndexCacheKey>>
         ELSE /\ returned' =
                   IndexResult(Some(DataIndex(activeSheet, workbook[activeSheet])), TRUE)
              /\ dataIndexCache' = Some(DataIndex(activeSheet, workbook[activeSheet]))
              /\ dataIndexCacheKey' = DataCacheKey(activeSheet, workbook[activeSheet])
  /\ UNCHANGED <<workbook, activeSheet, lightweightIndexCache, lightweightIndexCacheKey>>
  /\ UNCHANGED <<execVars, turnVars, calcVars, chatVars>>

\* clearLightweightIndexCache()
clearLightweightIndexCache ==
  /\ called' = "clearLightweightIndexCache"
  /\ argument' = <<>>
  /\ returned' = <<>>
  /\ lightweightIndexCache' = None
  /\ lightweightIndexCacheKey' = <<>>
  /\ UNCHANGED <<workbook, activeSheet, dataIndexCache, dataIndexCacheKey>>
  /\ UNCHANGED <<execVars, turnVars, calcVars, chatVars>>

\* clearDataIndexCache()
clearDataIndexCache ==
  /\ called' = "clearDataIndexCache"
  /\ argument' = <<>>
  /\ returned' = <<>>
  /\ dataIndexCache' = None
  /\ dataIndexCacheKey' = <<>>
  /\ UNCHANGED <<workbook, activeSheet, lightweightIndexCache, lightweightIndexCacheKey>>
  /\ UNCHANGED <<execVars, turnVars, calcVars, chatVars>>

\* The user changes the content of a sheet; no call's result is current any
\* more.
UserEdits(name, content) ==
  /\ workbook[name] # content
  /\ workbook' = [workbook EXCEPT ![name] = content]
  /\ called' = "none"
  /\ argument' = <<>>
  /\ returned' = <<>>
  /\ UNCHANGED <<activeSheet, lightweightIndexCache, lightweightIndexCacheKey,
                 dataIndexCache, dataIndexCacheKey>>
  /\ UNCHANGED <<execVars, turnVars, calcVars, chatVars>>

\* The user activates another sheet.
UserActivates(name) ==
  /\ activeSheet # name
  /\ activeSheet' = name
  /\ called' = "none"
  /\ argument' = <<>>
  /\ returned' = <<>>
  /\ UNCHANGED <<workbook, lightweightIndexCache, lightweightIndexCacheKey,
                 dataIndexCache, dataIndexCacheKey>>
  /\ UNCHANGED <<execVars, turnVars, calcVars, chatVars>>

\* ------------------------------------------------------------------------
\* The hidden calc sheet.  A formula is a sequence of tokens: "ref" is a
\* range reference without a sheet, "!" follows a sheet name.
\* ------------------------------------------------------------------------
CalcFormulaCount == <<"COUNTIF", "ref">>
CalcFormulaSum == <<"=", "SUM", "X", "!", "ref">>
CalcFormulaLists == {<<>>, <<CalcFormulaCount>>, <<CalcFormulaCount, CalcFormulaSum>>}

\* /[^a-zA-Z0-9_]/.test(sheetName) || sheetName.includes(" ")
NeedsQuotes(sheetName) ==
  \E i \in DOMAIN sheetName : sheetName[i] \notin {"S", "X", "_", "1", "A", "I", "C"}
EscapedSheetName(sheetName) ==
  IF NeedsQuotes(sheetName) THEN <<"'">> \o sheetName \o <<"'">> ELSE sheetName

\* part.replace(rangePattern, match => `${escapedSheetName}!${match}`)
RECURSIVE QualifyRefs(_, _)
QualifyRefs(part, escapedSheetName) ==
  IF part = <<>> THEN <<>>
  ELSE (IF Head(part) = "ref" THEN escapedSheetName \o <<"!", "ref">> ELSE <<Head(part)>>)
         \o QualifyRefs(Tail(part), escapedSheetName)

\* adjustFormulaReferences, for a formula without quoted strings: a part
\* that holds a "!" is left as it is.
adjustFormulaReferences(formula, sheetName) ==
  IF \E i \in DOMAIN formula : formula[i] = "!" THEN formula
  ELSE QualifyRefs(formula, EscapedSheetName(sheetName))

\* The formula assigned to cell A(i): the marker is put in front, then the
\* references are adjusted.
CalcCellFormula(formula, sourceSheetName) ==
  adjustFormulaReferences(IF StartsWithEq(formula) THEN formula ELSE <<"=">> \o formula,
                          sourceSheetName)

\* Variant: the formulas are evaluated on the active worksheet.
CalcTargetActive(active) == active

\* The sheet the formulas are written to: the one named CALC_SHEET_NAME.
CalcTarget(active) == CALC_SHEET_NAME

\* worksheets.add(name) when no sheet has the name
WithSheet(wb, name) ==
  [n \in (DOMAIN wb) \cup {name} |-> IF n \in DOMAIN wb THEN wb[n] ELSE BlankSheet]

\* usedRange.clear()
WithCleared(wb, name) == [WithSheet(wb, name) EXCEPT ![name] = BlankSheet]

\* cell.formulas = [[adjustedFormula]] for A1, A2, ...
WithFormulas(wb, name, formulas, sourceSheetName) ==
  [WithSheet(wb, name) EXCEPT
     ![name] = [i \in DOMAIN formulas |-> <<CalcCellFormula(formulas[i], sourceSheetName)>>]]

\* results.push({ formula: formulas[i], result: value, cell: `A${i + 1}` })
CalcResults(formulas, sourceSheetName) ==
  [i \in DOMAIN formulas |->
     [formula |-> formulas[i],
      result |-> HostEvaluate(CalcCellFormula(formulas[i], sourceSheetName)),
      cell |-> i]]

\* The context.sync() calls of executeCalcFormulas, in order; "none": no sync
\* rejects.
CalcSyncs == {"names", "add", "usedRange", "clear", "write", "values", "none"}

\* Whether the sync is reached and rejects, given the workbook at the call.
SyncRejects(wb, name, rejected) ==
  \/ rejected \in {"names", "usedRange", "write", "values"}
  \/ rejected = "add" /\ name \notin DOMAIN wb
  \/ rejected = "clear" /\ name \in DOMAIN wb /\ wb[name] # BlankSheet

\* The workbook the call leaves behind.
AfterCalcFormulas(wb, name, formulas, sourceSheetName, rejected) ==
  IF ~SyncRejects(wb, name, rejected) THEN WithFormulas(wb, name, formulas, sourceSheetName)
  ELSE IF rejected \in {"names", "add"} THEN wb
  ELSE IF rejected \in {"usedRange", "clear"} THEN WithSheet(wb, name)
  ELSE IF rejected = "write" THEN WithCleared(wb, name)
  ELSE WithFormulas(wb, name, formulas, sourceSheetName)

\* executeCalcFormulas(formulas, sourceSheetName)
executeCalcFormulas(formulas, sourceSheetName, rejected) ==
  /\ called' = "executeCalcFormulas"
  /\ argument' = <<formulas, sourceSheetName, rejected>>
  /\ workbook' = AfterCalcFormulas(workbook, CalcTarget(activeSheet), formulas,
                                   sourceSheetName, rejected)
  /\ returned' = IF SyncRejects(workbook, CalcTarget(activeSheet), rejected)
                 THEN [threw |-> TRUE, results |-> <<>>]
                 ELSE [threw |-> FALSE, results |-> CalcResults(formulas, sourceSheetName)]
  /\ UNCHANGED <<activeSheet, lightweightIndexCache, lightweightIndexCacheKey,
                 dataIndexCache, dataIndexCacheKey>>
  /\ UNCHANGED <<execVars, turnVars, calcVars, chatVars>>

\* clearCalcSheet(): a rejected sync is only logged.
clearCalcSheet(rejects) ==
  /\ called' = "clearCalcSheet"
  /\ argument' = <<rejects>>
  /\ returned' = <<>>
  /\ workbook' = IF ~rejects /\ CALC_SHEET_NAME \in DOMAIN workbook
                 THEN WithCleared(workbook, CALC_SHEET_NAME)
                 ELSE workbook
  /\ UNCHANGED <<activeSheet, lightweightIndexCache, lightweightIndexCacheKey,
                 dataIndexCache, dataIndexCacheKey>>
  /\ UNCHANGED <<execVars, turnVars, calcVars, chatVars>>

\* getOrCreateCalcSheet()
getOrCreateCalcSheet(rejects) ==
  /\ called' = "getOrCreateCalcSheet"
  /\ argument' = <<rejects>>
  /\ returned' = IF rejects THEN [threw |-> TRUE, name |-> <<>>]
                 ELSE [threw |-> FALSE, name |-> CALC_SHEET_NAME]
  /\ workbook' = IF rejects THEN workbook ELSE WithSheet(workbook, CALC_SHEET_NAME)
  /\ UNCHANGED <<activeSheet, lightweightIndexCache, lightweightIndexCacheKey,
                 dataIndexCache, dataIndexCacheKey>>
  /\ UNCHANGED <<execVars, turnVars, calcVars, chatVars>>

\* The calc sheet functions, called on a workbook the user keeps editing.
CalcSheetNext ==
  \/ \E formulas \in CalcFormulaLists, rejected \in CalcSyncs :
       executeCalcFormulas(formulas, activeSheet, rejected)
  \/ \E rejects \in BOOLEAN : clearCalcSheet(rejects)
  \/ \E rejects \in BOOLEAN : getOrCreateCalcSheet(rejects)
  \/ \E name \in UserSheets, content \in SheetContents : UserEdits(name, content)
  \/ \E name \in UserSheets : UserActivates(name)

CalcSheetSpec == BookInit /\ [][CalcSheetNext]_vars

\* The index builders, called on a workbook the user keeps editing.
BookNext ==
  \/ \E forceRebuild \in BOOLEAN, throws \in BOOLEAN :
       buildLightweightIndex(forceRebuild, throws)
  \/ \E forceRebuild \in BOOLEAN, throws \in BOOLEAN : buildDataIndex(forceRebuild, throws)
  \/ clearLightweightIndexCache
  \/ clearDataIndexCache
  \/ \E name \in UserSheets, content \in SheetContents : UserEdits(name, content)
  \/ \E name \in UserSheets : UserActivates(name)

BookSpec == BookInit /\ [][BookNext]_vars

\* ------------------------------------------------------------------------
\* The conversation history of AzureOpenAIService
\* ------------------------------------------------------------------------
\* Array.prototype.slice(-n)
SliceLast(history, n) ==
  IF Len(history) <= n THEN history
  ELSE SubSeq(history, Len(history) - n + 1, Len(history))

\* Array.prototype.pop
Pop(history) ==
  IF history = <<>> THEN <<>> ELSE SubSeq(history, 1, Len(history) - 1)

\* trimHistory: over the limit, the first message and the last
\* maxHistoryLength - 1 messages are kept.
trimHistory(history) ==
  IF Len(history) > maxHistoryLength
  THEN <<history[1]>> \o SliceLast(history, maxHistoryLength - 1)
  ELSE history

\* The calls in flight, none of which has the service to itself any more.
Disturbed(calls) == {[c EXCEPT !.alone = FALSE] : c \in calls}

\* A call has returned or thrown.
Settle(call, kind, threw) ==
  /\ inFlight' = Disturbed(inFlight \ {call})
  /\ lastCall' = Some([id |-> call.id, kind |-> kind, threw |-> threw])
  /\ UNCHANGED <<sent, clears>>

\* The call throws.
Throw(call, kind) ==
  /\ failures < MaxFailures
  /\ failures' = failures + 1
  /\ Settle(call, kind, "AzureOpenAIError")

\* sendMessageStructured up to its fetch: the configuration is valid, the user
\* message is pushed, the history is trimmed and the request body is built
\* from it.
SendRequest ==
  /\ sent < MaxCalls
  /\ Cardinality(inFlight) < MaxInFlight
  /\ sent' = sent + 1
  /\ conversationHistory' = trimHistory(Append(conversationHistory, UserMessage(sent')))
  /\ inFlight' = Disturbed(inFlight) \cup
                   {[id |-> sent', before |-> conversationHistory,
                     request |-> conversationHistory', alone |-> inFlight = {}]}
  /\ UNCHANGED <<lastCall, failures, clears>>
  /\ UNCHANGED <<execVars, turnVars, fnVars, calcVars, bookVars>>

\* sendMessageStructured with an incomplete configuration: it throws before it
\* touches the history.
ConfigRejected ==
  /\ failures < MaxFailures
  /\ failures' = failures + 1
  /\ lastCall' = Some([id |-> 0, kind |-> "config", threw |-> "AzureOpenAIError"])
  /\ UNCHANGED <<conversationHistory, inFlight, sent, clears>>
  /\ UNCHANGED <<execVars, turnVars, fnVars, calcVars, bookVars>>

\* The response has an error status.
HttpError(call) ==
  /\ call \in inFlight
  /\ conversationHistory' = Pop(conversationHistory)
  /\ Throw(call, "status")
  /\ UNCHANGED <<execVars, turnVars, fnVars, calcVars, bookVars>>

\* The response has no choices.
NoChoices(call) ==
  /\ call \in inFlight
  /\ conversationHistory' = Pop(conversationHistory)
  /\ Throw(call, "choices")
  /\ UNCHANGED <<execVars, turnVars, fnVars, calcVars, bookVars>>

\* fetch or response.json() rejected: the catch block pops the last message
\* when it is a user message.
NetworkException(call) ==
  /\ call \in inFlight
  /\ conversationHistory' =
       IF conversationHistory # <<>> /\
          conversationHistory[Len(conversationHistory)].role = "user"
       THEN Pop(conversationHistory)
       ELSE conversationHistory
  /\ Throw(call, "network")
  /\ UNCHANGED <<execVars, turnVars, fnVars, calcVars, bookVars>>

\* The model answered: the assistant message is pushed.
Answered(call) ==
  /\ call \in inFlight
  /\ conversationHistory' = Append(conversationHistory, AssistantMessage(call.id))
  /\ Settle(call, "answer", "")
  /\ UNCHANGED failures
  /\ UNCHANGED <<execVars, turnVars, fnVars, calcVars, bookVars>>

\* clearHistory, behind the button "Nueva conversación", which stays enabled
\* while a request is awaited.
clearHistory ==
  /\ clears < MaxClears
  /\ clears' = clears + 1
  /\ conversationHistory' = initializeConversation
  /\ inFlight' = Disturbed(inFlight)
  /\ UNCHANGED <<lastCall, sent, failures>>
  /\ UNCHANGED <<execVars, turnVars, fnVars, calcVars, bookVars>>

HistoryInit ==
  /\ sheet = EmptySheet
  /\ actions = <<>>
  /\ idx = 1
  /\ pc = "off"
  /\ results = <<>>
  /\ cur = None
  /\ last = None
  /\ started = <<>>
  /\ editMode = "auto"
  /\ TurnIdle
  /\ FnIdle
  /\ calc = CalcIdle
  /\ BookIdle
  /\ ChatIdle

HistoryNext ==
  \/ SendRequest
  \/ ConfigRejected
  \/ \E call \in inFlight : HttpError(call)
  \/ \E call \in inFlight : NoChoices(call)
  \/ \E call \in inFlight : NetworkException(call)
  \/ \E call \in inFlight : Answered(call)
  \/ clearHistory

HistorySpec == HistoryInit /\ [][HistoryNext]_vars

\* A builder has just returned.
BuiltLightweight == called = "buildLightweightIndex"
BuiltData == called = "buildDataIndex"
Built == BuiltLightweight \/ BuiltData

\* The cache and key of the builder that returned, the index a rebuild
\* yields and the key of the current used range.
CacheNow == IF BuiltLightweight THEN lightweightIndexCache ELSE dataIndexCache
KeyNow == IF BuiltLightweight THEN lightweightIndexCacheKey ELSE dataIndexCacheKey
FreshIndex ==
  IF BuiltLightweight THEN LightweightIndex(activeSheet, workbook[activeSheet])
  ELSE DataIndex(activeSheet, workbook[activeSheet])
CurrentKey ==
  <<activeSheet, Digit(RowCount(workbook[activeSheet])),
    Digit(ColumnCount(workbook[activeSheet]))>>

\* The (sheet name, row count, column count) a cached key was made of.
KeyTriple(key) ==
  IF BuiltLightweight
    THEN <<SubSeq(key, 1, Len(key) - 6), key[Len(key) - 4], key[Len(key) - 2]>>
    ELSE <<SubSeq(key, 1, Len(key) - 4), key[Len(key) - 2], key[Len(key)]>>

\* forceRebuild is false, a cached index exists and its key is that of the
\* current used range.
CacheApplies ==
  /\ ~argument[1]
  /\ Has(argument[3])
  /\ KeyTriple(argument[4]) = CurrentKey

ReturnedCached ==
  /\ returned = IndexResult(argument[3], FALSE)
  /\ CacheNow = argument[3]
  /\ KeyNow = argument[4]

\* An index was built from the used range and replaced the cache and its key.
ReturnedRebuilt ==
  /\ ~IsNullObject(workbook[activeSheet])
  /\ returned = IndexResult(Some(FreshIndex), TRUE)
  /\ CacheNow = Some(FreshIndex)
  /\ KeyTriple(KeyNow) = CurrentKey

ReturnedNull ==
  /\ returned = IndexResult(None, FALSE)
  /\ CacheNow = argument[3]
  /\ KeyNow = argument[4]

\* The document was read and the active sheet has a used range.
UsedRangeRead == ~argument[2] /\ ~IsNullObject(workbook[activeSheet])

\* C21 as stated: a builder returns the cached index without rebuilding if
\* and only if forceRebuild is false, a cached index exists and the key of the
\* current used range equals the cached key; in every other case the index is
\* rebuilt and replaces the cache together with its key.
C21_CachedIffKeyMatches ==
  Built => IF CacheApplies THEN ReturnedCached ELSE ReturnedRebuilt

\* C21 as amended: the same whenever the document was read and the active
\* sheet has a used range; otherwise the builder returns null and leaves the
\* cache and its key as they were.
C21_CachedIffKeyMatchesOfUsedRange ==
  Built => IF ~UsedRangeRead THEN ReturnedNull
           ELSE IF CacheApplies THEN ReturnedCached
           ELSE ReturnedRebuilt

\* A builder answered from a cache holding the index of an earlier content
\* of the same dimensions.
C21_Witness ==
  /\ Built
  /\ UsedRangeRead
  /\ CacheApplies
  /\ returned.index # Some(FreshIndex)

\* ------------------------------------------------------------------------
\* Properties of the conversation history
\* ------------------------------------------------------------------------
\* The messages of `kept` are the last messages of `history`, in its order.
IsSuffix(kept, history) ==
  /\ Len(kept) <= Len(history)
  /\ kept = SliceLast(history, Len(kept))

\* C38: every request that sendMessageStructured sends carries a history
\* whose first message is the system prompt and whose length is at most
\* maxHistoryLength, whatever turns succeeded or failed before; the messages
\* after the first are the most recent ones of the history with the new user
\* message, in their order.
C38_RequestStartsWithSystemPrompt ==
  \A call \in inFlight :
     /\ call.request # <<>>
     /\ call.request[1] = SystemMessage
     /\ Len(call.request) <= maxHistoryLength
     /\ IsSuffix(Tail(call.request), Append(call.before, UserMessage(call.id)))

\* The step is the failure of `call` on one of the three paths that follow
\* the request.
FailsAfterRequest(call) ==
  /\ call \notin inFlight'
  /\ lastCall' # None
  /\ lastCall'[1].id = call.id
  /\ lastCall'[1].kind \in {"status", "choices", "network"}

\* C40: when sendMessageStructured fails after its request (error status, no
\* choices, network exception) it throws AzureOpenAIError and, no other call
\* and no clearHistory having run meanwhile, the history is again what it was
\* before the call, also when it was at its maximum length.
C40_HistoryRestoredOnFailure ==
  [][\A call \in inFlight :
       (FailsAfterRequest(call) /\ call.alone) =>
          /\ lastCall'[1].threw = "AzureOpenAIError"
          /\ conversationHistory' = call.before]_vars

\* ------------------------------------------------------------------------
\* Properties of the aggregation by category
\* ------------------------------------------------------------------------
Counted == called = "getUniqueCountsByCategory"
Averaged == called = "getAverageByCategory"

\* The distinct non-empty trimmed values of the category column.
Categories(rows) ==
  {StringTrim(String(rows[i].category)) : i \in DOMAIN rows} \ {<<>>}

\* The data rows with a category that match the optional filter, compared
\* without regard to case.
Matching(rows, category, filterColumn, filterValue) ==
  {i \in DOMAIN rows :
     /\ StringTrim(String(rows[i].category)) = category
     /\ (Has(filterColumn) /\ Has(filterValue)) =>
          toUpperCase(StringTrim(String(rows[i].filter))) = toUpperCase(filterValue[1])}

SortedDescending(entries, field) ==
  \A i \in 1..(Len(entries) - 1) : entries[i][field] >= entries[i + 1][field]

\* C26: getUniqueCountsByCategory returns one entry per distinct non-empty
\* trimmed value of the category column, whose count is the number of data
\* rows with that category that match the optional filter (compared without
\* regard to case), sorted by count descending; getAverageByCategory returns
\* its entries sorted by average descending.
C26_OneEntryPerCategorySorted ==
  /\ Counted =>
       /\ {returned[j].category : j \in DOMAIN returned} = Categories(argument[1])
       /\ Len(returned) = Cardinality(Categories(argument[1]))
       /\ \A j \in DOMAIN returned :
            returned[j].count =
              Cardinality(Matching(argument[1], returned[j].category, argument[2], argument[3]))
       /\ SortedDescending(returned, "count")
  /\ Averaged => SortedDescending(returned, "average")

\* ------------------------------------------------------------------------
\* Properties of the hidden calc sheet
\* ------------------------------------------------------------------------
OtherSheets(wb) == (DOMAIN wb) \ {CALC_SHEET_NAME}

\* C27: executeCalcFormulas computes its formulas only on the sheet _AI_Calc:
\* whatever the formulas, and whether the call succeeds or fails, the cells of
\* every other sheet of the workbook are the same after the call as before.
C27_OtherSheetsUnchanged ==
  [][called' = "executeCalcFormulas" =>
       /\ OtherSheets(workbook') = OtherSheets(workbook)
       /\ \A n \in OtherSheets(workbook) : workbook'[n] = workbook[n]]_vars

\* Two formulas were evaluated on the calc sheet next to a user's table.
C27_Witness ==
  /\ called = "executeCalcFormulas"
  /\ ~returned.threw
  /\ Len(returned.results) = 2
  /\ workbook[CALC_SHEET_NAME] =
       <<<<<<"=", "COUNTIF">> \o activeSheet \o <<"!", "ref">>>>, <<CalcFormulaSum>>>>
  /\ workbook[activeSheet] = TableWide

====
